---- MODULE Spec2Model ----
(***************************************************************************)
(* Model of the OAuth authorization core of momentum-mcp-server:           *)
(* internal/auth/tokens.go (TokenStore), internal/auth/oauth.go            *)
(* (AuthCodeStore, ClientStore, OAuthServer), internal/auth/ratelimit.go   *)
(* (RateLimiter), the bearer middleware and the Persistence; and of the    *)
(* GitHub storage with the todo tools on it, and calculateStreak.          *)
(*                                                                         *)
(* Every HTTP request is served by its own goroutine; a goroutine is a     *)
(* process p of Procs whose position is pc[p].  One action is one critical *)
(* section of a store (one Lock/Unlock or RLock/RUnlock pair) together     *)
(* with the goroutine-local computation that follows it up to the next     *)
(* critical section.  Maps are functions; time.Now() is the clock `now`.   *)
(*                                                                         *)
(* The specifications share the actions: Spec (the authorization-code      *)
(* flow, one request at a time, every kind of /token request), SpecRedeem  *)
(* (concurrent redemption of codes), SpecRotate (concurrent refresh-token  *)
(* rotation), SpecAuthz (every kind of /authorize and /register request),  *)
(* SpecStore (the TokenStore under each of its callers, the bearer         *)
(* middleware among them), SpecLimiter (the rate limiter), SpecRecover     *)
(* (Save, crash, restart and Load), SpecSeed (registrations and Loads),    *)
(* SpecPersistLive (Start to Stop with the save loop, under fairness),     *)
(* SpecDisabled (a Persistence without a data directory), SpecTrigger      *)
(* (the handlers that change the stores, with a data directory),           *)
(* SpecRefresh (the refresh_token grant with and without client_id),       *)
(* SpecFlow (registration to bearer request, without a PIN), SpecLocks     *)
(* (the goroutines as sequences of lock operations), SpecCascade           *)
(* (RevokeRefreshTokenAndAccessTokens statement by statement, under its    *)
(* lock), SpecClients (everything that reaches the ClientStore),           *)
(* SpecSaves (Save as generations of the snapshot file), SpecLimited       *)
(* (POST /token behind RateLimitMiddleware), SpecBound (redemption with    *)
(* matching and mismatching parameters), SpecTools (addTodo and            *)
(* completeTodo racing on todos.md), SpecStatus (checkResponseError) and   *)
(* SpecStreak (calculateStreak on every small calendar).                   *)
(***************************************************************************)
EXTENDS Naturals, FiniteSets, Sequences, TLC

\* ------------------------------------------------------------------ bounds
\* Concurrent request goroutines.
NumProcs == 2
\* The clock stops at MaxTime.  crypto/rand may fail at any draw; the model lets
\* it succeed at most MaxCodes, MaxTokens, MaxClients times for the three uses
\* of generateSecureToken.  ShortTime is the clock bound of SpecRedeem,
\* RotateTime that of SpecRotate and SpecAuthz; RaceTokens is the token bound of
\* both races.
MaxTime == 3
MaxCodes == 1
MaxTokens == 2
MaxClients == 1
ShortTime == 1
RotateTime == 2
RaceTokens == 6
\* SpecStore: successful token draws.  SpecLimiter: the limiter's limit and
\* window (main.go configures 10 per minute), the Allow calls and the clock.
StoreTokens == 3
RateLimit == 2
RateWindow == 2
MaxCalls == 4
LimiterTime == 3
\* The specifications of the Persistence: goroutines TriggerSave has started
\* that have not begun to save, successful token draws of SpecRecover, the
\* clock, successful token draws of SpecPersistLive.
MaxTriggers == 1
\* SpecSaves: the snapshots gathered.
MaxSaves == 3
\* SpecTools: the writes todos.md takes.
MaxCommits == 2
\* SpecStreak: the entries of a calendar, the days it reaches back, today.
MaxDays == 4
StreakDays == 3
Today == 10
\* SpecStatus: the status codes, 100 to 599.
MinStatus == 100
MaxStatus == 599
PersistTokens == 1
PersistTime == 1
LoopTokens == 1
\* SpecLocks: request handlers running at once, and the tokens and the clients
\* of the snapshot a Load restores.
LockHandlers == 1
LoadItems == 1

\* One clock unit is the lifetime of an authorization code (5 minutes).
CodeTTL == 1
\* Configured token lifetimes (OAUTH_ACCESS_TOKEN_TTL, OAUTH_REFRESH_TOKEN_TTL),
\* in clock units; access < refresh as in the defaults.
AccessTTL == 1
RefreshTTL == 2

Procs == 1..NumProcs

\* ------------------------------------------------------------- vocabulary
AccessToken == "access"
RefreshToken == "refresh"

DefaultClientID == "claude-ai"
DefaultRedirectURIs ==
  {"https://claude.ai/api/mcp/auth_callback", "https://www.claude.ai/api/mcp/auth_callback"}
ClaudeCallback == "https://claude.ai/api/mcp/auth_callback"
AppCallback == "https://app.example/cb"
EvilCallback == "https://evil.example/cb"

ConfiguredPin == "1234"

VARIABLES
  now,           \* time.Now()
  authorizePin,  \* OAuthServer.authorizePin ("" = no PIN configured)
  tokens,        \* TokenStore.tokens: token value -> TokenInfo
  codes,         \* AuthCodeStore.codes: code -> AuthCode
  clients,       \* ClientStore.clients: client id -> set of redirect URIs
  rnd,           \* values drawn from crypto/rand so far, by use: [code, token, client]
  limit,         \* where the model stops: draws per use, and the clock
  delivered,     \* token values clients have received in a 200 token response
  hist,          \* history: how often each code was returned by Get (obtained),
                 \* how many token pairs each code or refresh token produced (pairs),
                 \* the tokens that were linked to the refresh token when the
                 \* revocation in progress took the lock (linked), and the codes
                 \* Get returned to a request that then failed a check (failed)
  pc,            \* position of each request goroutine
  req,           \* the request a goroutine is serving
  loc,           \* its local variables (tokenInfo / clientID / refreshToken)
  resp,          \* the response it wrote
  requests,      \* RateLimiter.requests: ip -> times of the admitted calls kept
  calls,         \* history: every Allow call so far, [ip, t, ok], in order
  filePath,      \* Persistence.filePath ("" = no data directory configured)
  disk,          \* the file at filePath
  tmpFile,       \* the file at filePath + ".tmp"
  stopCh,        \* Persistence.stopCh: "open" or "closed"
  life,          \* the goroutine that owns the Persistence: where it is (at) and
                 \* the method it called last (op)
  loop,          \* position of the periodicSave goroutine
  triggered,     \* goroutines TriggerSave started that have not yet run Save
  saving,        \* the Save that holds Persistence.mu: its caller, position and locals
  snap,          \* history: the stores as they were when the Save that last replaced
                 \* the file gathered them
  mu,            \* the mutexes: Persistence.mu, TokenStore.mu, ClientStore.mu,
                 \* AuthCodeStore.mu; of each its writer, its readers and the
                 \* goroutines blocked in Lock
  run,           \* the lock operations each goroutine still has to perform, in the
                 \* order of its code path
  saves,         \* the Saves seen as generations: how many snapshots were gathered,
                 \* which one each goroutine holds, which one the temporary file
                 \* and the snapshot file hold, and who is writing
  github,        \* todos.md in the GitHub repository: its content, and how many
                 \* times it was written
  tool,          \* the tool calls: position, input, what ReadFile returned, the
                 \* status WriteFile received, output
  arg,           \* the argument of the function under examination
  ret            \* and what it returned

\* The variables of the rate limiter and of the persistence.
limiterVars == <<requests, calls>>
persistVars == <<filePath, disk, tmpFile, stopCh, life, loop, triggered, saving, snap>>
\* The mutexes and the goroutines seen as sequences of lock operations.
lockVars == <<mu, run, saves>>
\* The GitHub storage, the tools on it, and functions examined by themselves.
toolVars == <<github, tool, arg, ret>>

vars == <<now, authorizePin, limit, tokens, codes, clients, rnd, delivered, hist, pc, req, loc, resp,
          limiterVars, persistVars, lockVars, toolVars>>

\* ---------------------------------------------------------------- helpers
\* An assignment that leaves k the only key of the map.
MapPut_Alone(m, k, v) == [x \in {k} |-> v]
\* Go map assignment m[k] = v and delete(m, k).
MapPut(m, k, v) == [x \in (DOMAIN m) \cup {k} |-> IF x = k THEN v ELSE m[x]]
MapDel(m, k) == [x \in (DOMAIN m) \ {k} |-> m[x]]
MapDelAll(m, ks) == [x \in (DOMAIN m) \ ks |-> m[x]]
EmptyMap == [x \in {} |-> 0]

\* History counters: a key that was never counted stands at 0.
Count(f, k) == IF k \in DOMAIN f THEN f[k] ELSE 0
Bump(f, k) == MapPut(f, k, Count(f, k) + 1)

\* t.After(u) and t.Before(u) of package time.
After(t, u) == t > u
Before(t, u) == t < u

\* strings.HasPrefix and strings.TrimPrefix.
HasPrefix(str, prefix) ==
  Len(str) >= Len(prefix) /\ SubSeq(str, 1, Len(prefix)) = prefix

TrimPrefix(str, prefix) ==
  IF HasPrefix(str, prefix) THEN SubSeq(str, Len(prefix) + 1, Len(str)) ELSE str

\* generateSecureToken: the value of the n-th successful draw from crypto/rand
\* for the given use, base64url encoded.  Distinct draws give distinct strings.
SecureToken(use, n) == use \o ToString(n)

\* The draws left for a use before the model makes crypto/rand fail.
RandLeft(use) == rnd[use] < limit[use]

Drawn(use) == [rnd EXCEPT ![use] = rnd[use] + 1]

NoReq == [ep |-> "none"]
\* A nil *TokenInfo.
NilInfo == [Type |-> "nil", ClientID |-> "", ExpiresAt |-> 0, RefreshTokenID |-> ""]
NoLoc == [clientID |-> "", refreshToken |-> "", info |-> NilInfo]
NoResp == [status |-> 0, error |-> "", description |-> "", location |-> "", page |-> "",
           code |-> "", client_id |-> "", access_token |-> "", refresh_token |-> "",
           www_authenticate |-> "", served |-> FALSE, info |-> NilInfo]

\* No file at a path.  A file is absent, a snapshot (a PersistentData document),
\* partial (a write of a document that did not finish) or garbage (anything
\* json.Unmarshal refuses).  SavedAt, which Load only logs, is left out of the
\* document.
NoFile == [kind |-> "absent", Tokens |-> EmptyMap, Clients |-> EmptyMap]

\* Nobody is inside Save.  Tokens and Clients are the locals of Save;
\* srcTokens, at and closed are history: the token store and the clock when the
\* tokens were gathered, and whether stopCh was closed by then.
NoSave == [caller |-> "none", pc |-> "idle", Tokens |-> EmptyMap, Clients |-> EmptyMap,
           srcTokens |-> EmptyMap, at |-> 0, closed |-> FALSE]

\* No Save has replaced the file yet.
NoSnap == [taken |-> FALSE, Tokens |-> EmptyMap, Clients |-> EmptyMap, at |-> 0,
           closed |-> FALSE]

\* The owner of the Persistence at position `at`, having last called op; err is
\* the error the last call that returned gave back ("" = nil).
Life(at, op) == [at |-> at, op |-> op, err |-> ""]

\* An error response: a status and the "error" member of its JSON body.
ErrorResp(status, err) == [NoResp EXCEPT !.status = status, !.error = err]

\* tokenError: 400 with {error, error_description}.
tokenError(err, description) == [ErrorResp(400, err) EXCEPT !.description = description]

\* The goroutine of p returns having written response r to request q.
Finish(p, q, r) ==
  /\ pc' = [pc EXCEPT ![p] = "done"]
  /\ req' = [req EXCEPT ![p] = q]
  /\ loc' = [loc EXCEPT ![p] = NoLoc]
  /\ resp' = [resp EXCEPT ![p] = r]

\* A request is taken up by an idle goroutine.  A finished response is
\* collected (Return) before the next request arrives, the clock advances or a
\* ticker fires; handlers already running are not held up by it.  Return
\* touches no store, so this leaves out no state of the stores.
Collected == \A q \in Procs : pc[q] # "done"
CanStart(p) == pc[p] = "idle" /\ Collected

\* ------------------------------------------------------------ ClientStore
\* A comparison that accepts every URI a registered URI is a prefix of.
ValidateRedirectURI_Prefix(clientID, redirectURI) ==
  IF clientID \notin DOMAIN clients THEN FALSE
  ELSE \E uri \in clients[clientID] : HasPrefix(redirectURI, uri)

\* ValidateRedirectURI: uri == redirectURI for one of the client's URIs.
ValidateRedirectURI(clientID, redirectURI) ==
  IF clientID \notin DOMAIN clients THEN FALSE
  ELSE redirectURI \in clients[clientID]

\* ---------------------------------------------------------- AuthCodeStore
AuthCode(clientID, redirectURI, challenge, method, expiresAt) ==
  [ClientID |-> clientID, RedirectURI |-> redirectURI, CodeChallenge |-> challenge,
   CodeChallengeMethod |-> method, ExpiresAt |-> expiresAt, Used |-> FALSE]

\* Get without the test of Used.
AuthCodeGettable_IgnoresUsed(cs, code, t) ==
  /\ code \in DOMAIN cs
  /\ ~After(t, cs[code].ExpiresAt)

\* The condition under which Get returns the record.
AuthCodeGettable(cs, code, t) ==
  /\ code \in DOMAIN cs
  /\ ~cs[code].Used
  /\ ~After(t, cs[code].ExpiresAt)

\* Get without the assignment ac.Used = true.
AuthCodeStoreAfterGet_NoMark(cs, code, t) == cs

\* Get: check-and-mark under one Lock.  AuthCodeStoreAfterGet is the map Get leaves.
AuthCodeStoreAfterGet(cs, code, t) ==
  IF AuthCodeGettable(cs, code, t) THEN [cs EXCEPT ![code].Used = TRUE] ELSE cs

\* One pass of AuthCodeStore.cleanupExpired.
CodesToSweep(cs, t) == {c \in DOMAIN cs : After(t, cs[c].ExpiresAt) \/ cs[c].Used}

\* ------------------------------------------------------------- TokenStore
TokenInfo(type, clientID, expiresAt, refreshTokenID) ==
  [Type |-> type, ClientID |-> clientID, ExpiresAt |-> expiresAt,
   RefreshTokenID |-> refreshTokenID]

\* ValidateToken, first half: the map read under RLock.
TokenLookup(ts, token) == IF token \in DOMAIN ts THEN ts[token] ELSE NilInfo

\* ValidateToken, the expiry test applied to the record that was read.
TokenExpired(info, t) == After(t, info.ExpiresAt)

\* ValidateToken without the test of the token's type.
ValidateResult_AnyType(info, expectedType, t) ==
  IF info.Type = "nil" THEN NilInfo
  ELSE IF After(t, info.ExpiresAt) THEN NilInfo
  ELSE info

\* ValidateToken, second half: what it returns for the record `info` it read.
ValidateResult(info, expectedType, t) ==
  IF info.Type = "nil" THEN NilInfo
  ELSE IF info.Type # expectedType THEN NilInfo
  ELSE IF TokenExpired(info, t) THEN NilInfo
  ELSE info

\* ValidateToken deletes the token exactly when it reaches the expiry branch.
ValidateDeletes(info, expectedType, t) ==
  info.Type # "nil" /\ info.Type = expectedType /\ TokenExpired(info, t)

\* ValidateToken run without interruption on store ts.
ValidateToken(ts, token, expectedType, t) ==
  ValidateResult(TokenLookup(ts, token), expectedType, t)

\* RevokeToken.
RevokeToken(ts, token) == MapDel(ts, token)

\* A revocation that deletes the refresh token and leaves the linked tokens.
RevokeRefreshTokenAndAccessTokens_Unlinked(ts, refreshToken) == MapDel(ts, refreshToken)

\* RevokeRefreshTokenAndAccessTokens.
RevokeRefreshTokenAndAccessTokens(ts, refreshToken) ==
  MapDelAll(ts, {refreshToken} \cup
                {k \in DOMAIN ts : ts[k].RefreshTokenID = refreshToken})

\* One pass of TokenStore.cleanupExpired.
TokensToSweep(ts, t) == {k \in DOMAIN ts : After(t, ts[k].ExpiresAt)}

\* ------------------------------------------------------------------- PKCE
\* BASE64URL(SHA256(verifier)): injective on the verifiers of the model, and
\* never the verifier itself nor the empty string.
S256(verifier) ==
  CASE verifier = "v1" -> "O_wmlZTvZJIo6adLqwDwQu_JHVrMb77jGjgugNQjiP4"
    [] verifier = "v2" -> "-wTctpcOTD0Yc95R_VpQ17tGszgxE2AmZcNQ7EC1-ZA"
    [] verifier = "" -> "47DEQpj8HBSa-_TImW-5JCeuQeRkm5NMpJWZG3hSuFU"

\* The comparison of the "plain" method: the verifier itself against the challenge.
validatePKCE_Plain(verifier, challenge) == verifier = challenge

validatePKCE(verifier, challenge) == S256(verifier) = challenge

\* ------------------------------------------------------ GET/POST /authorize
\* issueAuthorizationCode: draw a code, store it, redirect to redirectURI.
issueAuthorizationCode(p, r) ==
  \E ok \in BOOLEAN :
    IF ok /\ RandLeft("code")
    THEN LET code == SecureToken("code", rnd.code + 1) IN
         /\ rnd' = Drawn("code")
         /\ codes' = MapPut(codes, code,
                            AuthCode(r.client_id, r.redirect_uri, r.code_challenge,
                                     r.code_challenge_method, now + CodeTTL))
         /\ Finish(p, r, [NoResp EXCEPT !.status = 302, !.location = r.redirect_uri,
                                        !.code = code])
    ELSE /\ Finish(p, r, ErrorResp(400, "server_error"))
         /\ UNCHANGED <<rnd, codes>>

\* The parameter checks of authorizeGet, in order: "" when all pass.
authorizeGetError(r) ==
  IF r.client_id = "" \/ r.redirect_uri = "" \/ r.response_type = "" THEN "invalid_request"
  ELSE IF r.response_type # "code" THEN "unsupported_response_type"
  ELSE IF r.code_challenge = "" \/ r.code_challenge_method # "S256" THEN "invalid_request"
  ELSE IF ~ValidateRedirectURI(r.client_id, r.redirect_uri) THEN "invalid_request"
  ELSE ""

authorizeGet(p, r) ==
  /\ CanStart(p)
  /\ r.method = "GET"
  /\ IF authorizeGetError(r) # ""
     THEN /\ Finish(p, r, ErrorResp(400, authorizeGetError(r)))
          /\ UNCHANGED <<rnd, codes>>
     ELSE IF authorizePin = ""
     THEN issueAuthorizationCode(p, r)
     ELSE /\ Finish(p, r, [NoResp EXCEPT !.status = 200, !.page = "consent"])
          /\ UNCHANGED <<rnd, codes>>
  /\ UNCHANGED <<now, authorizePin, limit, tokens, clients, delivered, hist>>
  /\ UNCHANGED <<limiterVars, persistVars, lockVars, toolVars>>

\* A comparison of the lengths alone.
pinMatches_LengthOnly(pin, configured) == Len(pin) = Len(configured)

\* subtle.ConstantTimeCompare(pin, authorizePin) == 1
pinMatches(pin, configured) == pin = configured

authorizePost(p, r) ==
  /\ CanStart(p)
  /\ r.method = "POST"
  /\ IF r.action = "deny"
     THEN /\ Finish(p, r, [NoResp EXCEPT !.status = 302, !.location = r.redirect_uri,
                                         !.error = "access_denied"])
          /\ UNCHANGED <<rnd, codes>>
     ELSE IF authorizePin # "" /\ ~pinMatches(r.pin, authorizePin)
     THEN /\ Finish(p, r, [NoResp EXCEPT !.status = 200, !.page = "consent: Invalid PIN"])
          /\ UNCHANGED <<rnd, codes>>
     ELSE issueAuthorizationCode(p, r)
  /\ UNCHANGED <<now, authorizePin, limit, tokens, clients, delivered, hist>>
  /\ UNCHANGED <<limiterVars, persistVars, lockVars, toolVars>>

\* ---------------------------------------------------------- POST /register
\* Checks that accept a body without redirect URIs.
registerError_NoURICheck(r) ==
  IF ~r.json_ok THEN "invalid_client_metadata" ELSE ""

\* The checks of Register on the body, in order: the error code of the 400 they
\* end in, "" when both pass.
registerError(r) ==
  IF ~r.json_ok THEN "invalid_client_metadata"
  ELSE IF r.redirect_uris = {} THEN "invalid_redirect_uri"
  ELSE ""

Register(p, r) ==
  /\ CanStart(p)
  /\ r.ep = "register"
  /\ IF r.method # "POST"
     THEN /\ Finish(p, r, ErrorResp(405, ""))
          /\ UNCHANGED <<rnd, clients>>
     ELSE IF registerError(r) # ""
     THEN /\ Finish(p, r, ErrorResp(400, registerError(r)))
          /\ UNCHANGED <<rnd, clients>>
     ELSE \E ok \in BOOLEAN :
       IF ok /\ RandLeft("client")
       THEN LET clientID == SecureToken("client", rnd.client + 1) IN
            /\ rnd' = Drawn("client")
            /\ clients' = MapPut(clients, clientID, r.redirect_uris)
            /\ Finish(p, r, [NoResp EXCEPT !.status = 201, !.client_id = clientID])
       ELSE /\ Finish(p, r, ErrorResp(500, ""))
            /\ UNCHANGED <<rnd, clients>>
  /\ UNCHANGED <<now, authorizePin, limit, tokens, codes, delivered, hist>>
  /\ UNCHANGED <<limiterVars, persistVars, lockVars, toolVars>>

\* -------------------------------------------------------------- POST /token
\* Token: the method and form checks that precede the dispatch on grant_type.
TokenRejectsEarly(p, r) ==
  /\ CanStart(p)
  /\ r.ep = "token"
  /\ ~(r.method = "POST" /\ r.grant_type \in {"authorization_code", "refresh_token"})
  /\ Finish(p, r, IF r.method # "POST" THEN ErrorResp(405, "")
                  ELSE tokenError("unsupported_grant_type", "Grant type not supported"))
  /\ UNCHANGED <<now, authorizePin, limit, tokens, codes, clients, rnd, delivered, hist>>
  /\ UNCHANGED <<limiterVars, persistVars, lockVars, toolVars>>

\* The checks on the record without those of client_id and redirect_uri.
codeGrantError_SkipsBinding(authCode, r) ==
  IF ~validatePKCE(r.code_verifier, authCode.CodeChallenge) THEN "Invalid code_verifier"
  ELSE ""

\* handleAuthorizationCodeGrant, the checks on the record Get returned: the
\* error_description of the invalid_grant they end in, "" when all pass.
codeGrantError(authCode, r) ==
  IF authCode.ClientID # r.client_id THEN "Client ID mismatch"
  ELSE IF authCode.RedirectURI # r.redirect_uri THEN "Redirect URI mismatch"
  ELSE IF ~validatePKCE(r.code_verifier, authCode.CodeChallenge) THEN "Invalid code_verifier"
  ELSE ""

\* A handler that marks the code used once the checks on the record passed.
handleAuthorizationCodeGrant_MarksOnSuccess(p, r) ==
  /\ CanStart(p)
  /\ r.ep = "token" /\ r.method = "POST" /\ r.grant_type = "authorization_code"
  /\ IF r.code = "" \/ r.code_verifier = "" \/ r.client_id = ""
     THEN /\ Finish(p, r, tokenError("invalid_request", "Missing required parameters"))
          /\ UNCHANGED codes
     ELSE /\ codes' = IF AuthCodeGettable(codes, r.code, now)
                        /\ codeGrantError(codes[r.code], r) = ""
                     THEN AuthCodeStoreAfterGet(codes, r.code, now) ELSE codes
          /\ IF ~AuthCodeGettable(codes, r.code, now)
             THEN Finish(p, r, tokenError("invalid_grant",
                                          "Invalid or expired authorization code"))
             ELSE IF codeGrantError(codes[r.code], r) # ""
             THEN Finish(p, r, tokenError("invalid_grant", codeGrantError(codes[r.code], r)))
             ELSE /\ pc' = [pc EXCEPT ![p] = "issueRefresh"]
                  /\ req' = [req EXCEPT ![p] = r]
                  /\ loc' = [loc EXCEPT ![p] = [NoLoc EXCEPT !.clientID = r.client_id]]
                  /\ UNCHANGED resp
  /\ hist' = IF r.code # "" /\ r.code_verifier # "" /\ r.client_id # ""
                 /\ AuthCodeGettable(codes, r.code, now)
              THEN [hist EXCEPT !.obtained = Bump(@, r.code),
                                !.failed = IF codeGrantError(codes[r.code], r) # ""
                                           THEN @ \cup {r.code} ELSE @]
              ELSE hist
  /\ UNCHANGED <<now, authorizePin, limit, tokens, clients, rnd, delivered>>
  /\ UNCHANGED <<limiterVars, persistVars, lockVars, toolVars>>

\* handleAuthorizationCodeGrant up to the call of issueTokens: the parameter
\* check, authCodes.Get (one critical section) and the checks on its result.
handleAuthorizationCodeGrant(p, r) ==
  /\ CanStart(p)
  /\ r.ep = "token" /\ r.method = "POST" /\ r.grant_type = "authorization_code"
  /\ IF r.code = "" \/ r.code_verifier = "" \/ r.client_id = ""
     THEN /\ Finish(p, r, tokenError("invalid_request", "Missing required parameters"))
          /\ UNCHANGED codes
     ELSE /\ codes' = AuthCodeStoreAfterGet(codes, r.code, now)
          /\ IF ~AuthCodeGettable(codes, r.code, now)
             THEN Finish(p, r, tokenError("invalid_grant",
                                          "Invalid or expired authorization code"))
             ELSE IF codeGrantError(codes[r.code], r) # ""
             THEN Finish(p, r, tokenError("invalid_grant", codeGrantError(codes[r.code], r)))
             ELSE /\ pc' = [pc EXCEPT ![p] = "issueRefresh"]
                  /\ req' = [req EXCEPT ![p] = r]
                  /\ loc' = [loc EXCEPT ![p] = [NoLoc EXCEPT !.clientID = r.client_id]]
                  /\ UNCHANGED resp
  /\ hist' = IF r.code # "" /\ r.code_verifier # "" /\ r.client_id # ""
                 /\ AuthCodeGettable(codes, r.code, now)
              THEN [hist EXCEPT !.obtained = Bump(@, r.code),
                                !.failed = IF codeGrantError(codes[r.code], r) # ""
                                           THEN @ \cup {r.code} ELSE @]
              ELSE hist
  /\ UNCHANGED <<now, authorizePin, limit, tokens, clients, rnd, delivered>>
  /\ UNCHANGED <<limiterVars, persistVars, lockVars, toolVars>>

\* handleRefreshTokenGrant up to the map read of ValidateToken (RLock..RUnlock).
handleRefreshTokenGrant(p, r) ==
  /\ CanStart(p)
  /\ r.ep = "token" /\ r.method = "POST" /\ r.grant_type = "refresh_token"
  /\ IF r.refresh_token = ""
     THEN Finish(p, r, tokenError("invalid_request", "Missing refresh_token"))
     ELSE /\ pc' = [pc EXCEPT ![p] = "validate"]
          /\ req' = [req EXCEPT ![p] = r]
          /\ loc' = [loc EXCEPT ![p] = [NoLoc EXCEPT !.info = TokenLookup(tokens, r.refresh_token)]]
          /\ UNCHANGED resp
  /\ UNCHANGED <<now, authorizePin, limit, tokens, codes, clients, rnd, delivered, hist>>
  /\ UNCHANGED <<limiterVars, persistVars, lockVars, toolVars>>

\* A check that wants client_id to be the token's client, supplied or not.
clientMismatch_Required(clientID, tokenInfo) == tokenInfo.ClientID # clientID

\* handleRefreshTokenGrant: clientID != "" && tokenInfo.ClientID != clientID.
clientMismatch(clientID, tokenInfo) == clientID # "" /\ tokenInfo.ClientID # clientID

\* The rest of ValidateToken (type and expiry tests on the record read, the
\* delete of an expired token) and the client_id check of the handler.
refreshValidate(p) ==
  /\ pc[p] = "validate"
  /\ LET r == req[p]
         tokenInfo == ValidateResult(loc[p].info, RefreshToken, now)
     IN /\ tokens' = IF ValidateDeletes(loc[p].info, RefreshToken, now)
                     THEN MapDel(tokens, r.refresh_token) ELSE tokens
        /\ IF tokenInfo.Type = "nil"
           THEN Finish(p, r, tokenError("invalid_grant", "Invalid or expired refresh token"))
           ELSE IF clientMismatch(r.client_id, tokenInfo)
           THEN Finish(p, r, tokenError("invalid_grant", "Client ID mismatch"))
           ELSE /\ pc' = [pc EXCEPT ![p] = "revoke"]
                /\ loc' = [loc EXCEPT ![p] = [NoLoc EXCEPT !.clientID = tokenInfo.ClientID]]
                /\ UNCHANGED <<req, resp>>
  /\ UNCHANGED <<now, authorizePin, limit, codes, clients, rnd, delivered, hist>>
  /\ UNCHANGED <<limiterVars, persistVars, lockVars, toolVars>>

\* The revocation handleRefreshTokenGrant performs before issuing the new pair.
rotationRevoke(ts, refreshToken) == RevokeToken(ts, refreshToken)

refreshRevoke(p) ==
  /\ pc[p] = "revoke"
  /\ tokens' = rotationRevoke(tokens, req[p].refresh_token)
  /\ pc' = [pc EXCEPT ![p] = "issueRefresh"]
  /\ UNCHANGED <<now, authorizePin, limit, codes, clients, rnd, delivered, hist, req, loc, resp>>
  /\ UNCHANGED <<limiterVars, persistVars, lockVars, toolVars>>

\* issueTokens, first critical section: GenerateRefreshToken.
issueTokensRefresh(p) ==
  /\ pc[p] = "issueRefresh"
  /\ \E ok \in BOOLEAN :
       IF ok /\ RandLeft("token")
       THEN LET refreshToken == SecureToken("token", rnd.token + 1) IN
            /\ rnd' = Drawn("token")
            /\ tokens' = MapPut(tokens, refreshToken,
                                TokenInfo(RefreshToken, loc[p].clientID, now + RefreshTTL, ""))
            /\ pc' = [pc EXCEPT ![p] = "issueAccess"]
            /\ loc' = [loc EXCEPT ![p].refreshToken = refreshToken]
            /\ UNCHANGED <<req, resp>>
       ELSE /\ Finish(p, req[p], tokenError("server_error", "Failed to generate tokens"))
            /\ UNCHANGED <<rnd, tokens>>
  /\ UNCHANGED <<now, authorizePin, limit, codes, clients, delivered, hist>>
  /\ UNCHANGED <<limiterVars, persistVars, lockVars, toolVars>>

\* issueTokens, second critical section: GenerateAccessToken, then the response.
issueTokensAccess(p) ==
  /\ pc[p] = "issueAccess"
  /\ \E ok \in BOOLEAN :
       IF ok /\ RandLeft("token")
       THEN LET accessToken == SecureToken("token", rnd.token + 1) IN
            /\ rnd' = Drawn("token")
            /\ tokens' = MapPut(tokens, accessToken,
                                TokenInfo(AccessToken, loc[p].clientID, now + AccessTTL,
                                          loc[p].refreshToken))
            /\ delivered' = delivered \cup {accessToken, loc[p].refreshToken}
            /\ hist' = [hist EXCEPT !.pairs =
                          Bump(@, IF req[p].grant_type = "refresh_token"
                                  THEN req[p].refresh_token ELSE req[p].code)]
            /\ Finish(p, req[p], [NoResp EXCEPT !.status = 200,
                                                !.access_token = accessToken,
                                                !.refresh_token = loc[p].refreshToken])
       ELSE /\ Finish(p, req[p], tokenError("server_error", "Failed to generate tokens"))
            /\ UNCHANGED <<rnd, tokens, delivered, hist>>
  /\ UNCHANGED <<now, authorizePin, limit, codes, clients>>
  /\ UNCHANGED <<limiterVars, persistVars, lockVars, toolVars>>

\* ------------------------------------------------- TokenStore, as called
\* A call of a TokenStore method by goroutine p: what was called, with what.
StoreCall(op, token, expectedType, clientID) ==
  [ep |-> "store", op |-> op, token |-> token, expectedType |-> expectedType,
   client_id |-> clientID]

\* GenerateRefreshToken(clientID).
GenerateRefreshToken(p, clientID) ==
  /\ CanStart(p)
  /\ \E ok \in BOOLEAN :
       IF ok /\ RandLeft("token")
       THEN LET token == SecureToken("token", rnd.token + 1) IN
            /\ rnd' = Drawn("token")
            /\ tokens' = MapPut(tokens, token,
                                TokenInfo(RefreshToken, clientID, now + RefreshTTL, ""))
            /\ Finish(p, StoreCall("GenerateRefreshToken", "", RefreshToken, clientID),
                      [NoResp EXCEPT !.refresh_token = token])
       ELSE /\ Finish(p, StoreCall("GenerateRefreshToken", "", RefreshToken, clientID),
                      [NoResp EXCEPT !.error = "err"])
            /\ UNCHANGED <<rnd, tokens>>
  /\ UNCHANGED <<now, authorizePin, limit, codes, clients, delivered, hist>>
  /\ UNCHANGED <<limiterVars, persistVars, lockVars, toolVars>>

\* GenerateAccessToken(clientID, refreshTokenID).
GenerateAccessToken(p, clientID, refreshTokenID) ==
  /\ CanStart(p)
  /\ \E ok \in BOOLEAN :
       IF ok /\ RandLeft("token")
       THEN LET token == SecureToken("token", rnd.token + 1) IN
            /\ rnd' = Drawn("token")
            /\ tokens' = MapPut(tokens, token,
                                TokenInfo(AccessToken, clientID, now + AccessTTL,
                                          refreshTokenID))
            /\ Finish(p, StoreCall("GenerateAccessToken", refreshTokenID, AccessToken,
                                   clientID),
                      [NoResp EXCEPT !.access_token = token])
       ELSE /\ Finish(p, StoreCall("GenerateAccessToken", refreshTokenID, AccessToken,
                                   clientID),
                      [NoResp EXCEPT !.error = "err"])
            /\ UNCHANGED <<rnd, tokens>>
  /\ UNCHANGED <<now, authorizePin, limit, codes, clients, delivered, hist>>
  /\ UNCHANGED <<limiterVars, persistVars, lockVars, toolVars>>

\* ValidateToken(token, expectedType) by a caller nothing interleaves with:
\* the map read, the tests, the delete of an expired token.
ValidateTokenCall(p, token, expectedType) ==
  /\ CanStart(p)
  /\ tokens' = IF ValidateDeletes(TokenLookup(tokens, token), expectedType, now)
               THEN MapDel(tokens, token) ELSE tokens
  /\ Finish(p, StoreCall("ValidateToken", token, expectedType, ""),
            [NoResp EXCEPT !.info = ValidateToken(tokens, token, expectedType, now)])
  /\ UNCHANGED <<now, authorizePin, limit, codes, clients, rnd, delivered, hist>>
  /\ UNCHANGED <<limiterVars, persistVars, lockVars, toolVars>>

\* RevokeToken(token).
RevokeTokenCall(p, token) ==
  /\ CanStart(p)
  /\ tokens' = RevokeToken(tokens, token)
  /\ Finish(p, StoreCall("RevokeToken", token, "", ""), NoResp)
  /\ UNCHANGED <<now, authorizePin, limit, codes, clients, rnd, delivered, hist>>
  /\ UNCHANGED <<limiterVars, persistVars, lockVars, toolVars>>

\* RevokeRefreshTokenAndAccessTokens(refreshToken).
RevokeCascadeCall(p, refreshToken) ==
  /\ CanStart(p)
  /\ tokens' = RevokeRefreshTokenAndAccessTokens(tokens, refreshToken)
  /\ Finish(p, StoreCall("RevokeRefreshTokenAndAccessTokens", refreshToken, "", ""), NoResp)
  /\ UNCHANGED <<now, authorizePin, limit, codes, clients, rnd, delivered, hist>>
  /\ UNCHANGED <<limiterVars, persistVars, lockVars, toolVars>>

\* RevokeRefreshTokenAndAccessTokens(refreshToken), statement by statement.
\* The goroutine of request p as a holder of a mutex.
Goroutine(p) == "request" \o ToString(p)

\* s.mu.Lock() and s.mu.RLock() of the TokenStore return only when no writer
\* holds the mutex (and Lock only when no reader does).
TokenStoreFree_Ignored == TRUE
TokenStoreFree == mu["TokenStore.mu"].w = "" /\ mu["TokenStore.mu"].r = {}

\* The tokens whose RefreshTokenID is refreshToken.
LinkedTo(ts, refreshToken) == {k \in DOMAIN ts : ts[k].RefreshTokenID = refreshToken}

\* s.mu.Lock(); defer s.mu.Unlock().
CascadeLock(p, refreshToken) ==
  /\ CanStart(p)
  /\ TokenStoreFree
  /\ mu' = [mu EXCEPT !["TokenStore.mu"].w = Goroutine(p)]
  /\ pc' = [pc EXCEPT ![p] = "cascade"]
  /\ req' = [req EXCEPT ![p] = StoreCall("RevokeRefreshTokenAndAccessTokens", refreshToken,
                                         "", "")]
  /\ hist' = [hist EXCEPT !.linked = LinkedTo(tokens, refreshToken)]
  /\ UNCHANGED <<now, authorizePin, limit, tokens, codes, clients, rnd, delivered, loc, resp,
                 limiterVars, persistVars, run, saves, toolVars>>

\* delete(s.tokens, refreshToken).
CascadeDeleteRefresh(p) ==
  /\ pc[p] = "cascade"
  /\ tokens' = MapDel(tokens, req[p].token)
  /\ pc' = [pc EXCEPT ![p] = "cascadeRange"]
  /\ UNCHANGED <<now, authorizePin, limit, codes, clients, rnd, delivered, hist, req, loc, resp,
                 limiterVars, persistVars, lockVars, toolVars>>

\* One iteration of the range loop that finds a linked token and deletes it;
\* the iterations that find none change nothing.
CascadeDeleteAccess(p) ==
  /\ pc[p] = "cascadeRange"
  /\ \E k \in LinkedTo(tokens, req[p].token) : tokens' = MapDel(tokens, k)
  /\ UNCHANGED <<now, authorizePin, limit, codes, clients, rnd, delivered, hist, pc, req, loc,
                 resp, limiterVars, persistVars, lockVars, toolVars>>

\* The loop ends and the deferred s.mu.Unlock() runs.
CascadeUnlock(p) ==
  /\ pc[p] = "cascadeRange"
  /\ LinkedTo(tokens, req[p].token) = {}
  /\ mu' = [mu EXCEPT !["TokenStore.mu"].w = ""]
  /\ hist' = [hist EXCEPT !.linked = {}]
  /\ Finish(p, req[p], NoResp)
  /\ UNCHANGED <<now, authorizePin, limit, tokens, codes, clients, rnd, delivered,
                 limiterVars, persistVars, run, saves, toolVars>>

\* ------------------------------------------------------ bearer middleware
\* cfg.AuthToken, which config.Load requires to be non-empty.
StaticToken == "static-secret"

\* MiddlewareConfig.ResourceMetadataURL.
ResourceMetadataURL == "http://localhost/.well-known/oauth-protected-resource"

\* staticTokenValidator.ValidateToken.
staticTokenValidator(configured, token) == token # "" /\ token = configured

\* A validator that asks the store for a refresh token.
oauthTokenValidator_Refresh(ts, token, t) ==
  ValidateToken(ts, token, RefreshToken, t).Type # "nil"

\* oauthTokenValidator.ValidateToken.
oauthTokenValidator(ts, token, t) == ValidateToken(ts, token, AccessToken, t).Type # "nil"

\* MultiValidator.ValidateToken over (static, oauth), in that order: the OAuth
\* validator is asked only when the static one refuses.
MultiValidator(ts, token, t) ==
  staticTokenValidator(StaticToken, token) \/ oauthTokenValidator(ts, token, t)

\* writeUnauthorized: 401 with the WWW-Authenticate header.
writeUnauthorized(resourceMetadataURL, errorDesc) ==
  [NoResp EXCEPT
     !.status = 401,
     !.www_authenticate =
        (IF resourceMetadataURL # ""
         THEN "Bearer resource_metadata=\"" \o resourceMetadataURL \o "\""
         ELSE "Bearer")
        \o (IF errorDesc # ""
            THEN ", error=\"invalid_token\", error_description=\"" \o errorDesc \o "\""
            ELSE "")]

BearerRequest(authorization) == [ep |-> "mcp", authorization |-> authorization]

\* Middleware: the handler in front of /mcp and /.  The validators run without
\* another goroutine in between; an expired access token the OAuth validator
\* meets is deleted by ValidateToken.
Middleware(p, r) ==
  /\ CanStart(p)
  /\ r.ep = "mcp"
  /\ IF ~HasPrefix(r.authorization, "Bearer ")
     THEN /\ Finish(p, r, writeUnauthorized(ResourceMetadataURL,
                                            "missing or invalid authorization header"))
          /\ UNCHANGED tokens
     ELSE LET token == TrimPrefix(r.authorization, "Bearer ") IN
          /\ tokens' = IF /\ ~staticTokenValidator(StaticToken, token)
                          /\ ValidateDeletes(TokenLookup(tokens, token), AccessToken, now)
                       THEN MapDel(tokens, token) ELSE tokens
          /\ IF ~MultiValidator(tokens, token, now)
             THEN Finish(p, r, writeUnauthorized(ResourceMetadataURL, "invalid token"))
             ELSE Finish(p, r, [NoResp EXCEPT !.status = 200, !.served = TRUE])
  /\ UNCHANGED <<now, authorizePin, limit, codes, clients, rnd, delivered, hist>>
  /\ UNCHANGED <<limiterVars, persistVars, lockVars, toolVars>>

\* ------------------------------------------------------------ RateLimiter
\* Source addresses of requests.
IPs == {"10.0.0.1", "10.0.0.2"}

\* rl.requests[ip], the zero value (a nil slice) for an address without entry.
RequestsOf(rs, ip) == IF ip \in DOMAIN rs THEN rs[ip] ELSE <<>>

\* A filter that keeps a time as old as the window.
Recent_Inclusive(times, t) == SelectSeq(times, LAMBDA x : x + RateWindow >= t)

\* The filter of Allow and cleanup: the times t.After(cutoff), cutoff = now - window
\* (x > t - RateWindow, written without the subtraction).
Recent(times, t) == SelectSeq(times, LAMBDA x : x + RateWindow > t)

\* What Allow(ip) returns at time t.
Allowed(rs, ip, t) == ~(Len(Recent(RequestsOf(rs, ip), t)) >= RateLimit)

\* An Allow that records the time of every call, admitted or not.
AllowStores_Always(rs, ip, t) == Append(Recent(RequestsOf(rs, ip), t), t)

\* The slice Allow(ip) assigns to rl.requests[ip] at time t: the recent times,
\* and t after them when the call is admitted.
AllowStores(rs, ip, t) ==
  IF Allowed(rs, ip, t) THEN Append(Recent(RequestsOf(rs, ip), t), t)
  ELSE Recent(RequestsOf(rs, ip), t)

\* Allow(ip): one critical section.
Allow(ip) ==
  /\ Len(calls) < MaxCalls
  /\ requests' = MapPut(requests, ip, AllowStores(requests, ip, now))
  /\ calls' = Append(calls, [ip |-> ip, t |-> now, ok |-> Allowed(requests, ip, now)])
  /\ UNCHANGED <<now, authorizePin, limit, tokens, codes, clients, rnd, delivered, hist,
                 pc, req, loc, resp, persistVars, lockVars, toolVars>>

\* What one pass of RateLimiter.cleanup leaves.
RequestsSwept(rs, t) ==
  [ip \in {i \in DOMAIN rs : Len(Recent(rs[i], t)) # 0} |-> Recent(rs[ip], t)]

\* RateLimiter.cleanup, one tick of its ticker.
RateLimiterCleanup ==
  /\ requests' = RequestsSwept(requests, now)
  /\ requests' # requests
  /\ UNCHANGED <<now, authorizePin, limit, tokens, codes, clients, rnd, delivered, hist,
                 pc, req, loc, resp, calls, persistVars, lockVars, toolVars>>

\* A middleware that hands every request to the next handler.
Passes_Always(rs, ip, t) == TRUE

\* RateLimitMiddleware: whether the request goes on to the next handler.
Passes(rs, ip, t) == Allowed(rs, ip, t)

\* http.Error(w, "Too Many Requests", http.StatusTooManyRequests).
TooManyRequests == [NoResp EXCEPT !.status = 429, !.description = "Too Many Requests"]

\* The request r that passed the middleware is with goroutine p, whose next
\* step is the handler's.
Admitted(p) == pc[p] = "idle" /\ req[p] # NoReq

\* RateLimitMiddleware in front of /token, for request r of address ip (what
\* getClientIP returns): rl.Allow(ip), then 429 or next.ServeHTTP.
RateLimitMiddleware(p, ip, r) ==
  /\ CanStart(p)
  /\ req[p] = NoReq
  /\ r.ep = "token"
  /\ Len(calls) < MaxCalls
  /\ requests' = MapPut(requests, ip, AllowStores(requests, ip, now))
  /\ calls' = Append(calls, [ip |-> ip, t |-> now, ok |-> Allowed(requests, ip, now)])
  /\ IF Passes(requests, ip, now)
     THEN /\ req' = [req EXCEPT ![p] = r]
          /\ UNCHANGED <<pc, loc, resp>>
     ELSE Finish(p, r, TooManyRequests)
  /\ UNCHANGED <<now, authorizePin, limit, tokens, codes, clients, rnd, delivered, hist,
                 persistVars, lockVars, toolVars>>

\* ----------------------------------------------------------- GitHubStorage
\* The result of a function that was not called.
NotCalled == [called |-> FALSE]

\* todos.md without an entry.
NoTodos == [Active |-> <<>>, Completed |-> <<>>]
ToolCallers == {"tool1", "tool2"}
\* What storage.GenerateID returns.
TodoIDs == {"id1", "id2"}

\* A check that does not look at the X-RateLimit-Remaining header.
checkResponseError_NoHeader(status, remaining) ==
  CASE status \in {200, 201} -> "nil"
    [] status = 404 -> "ErrNotFound"
    [] status = 409 -> "ErrConflict"
    [] status = 401 -> "ErrUnauthorized"
    [] status = 403 -> "ErrUnauthorized"
    [] status = 429 -> "ErrRateLimited"
    [] OTHER -> "GitHub API error"

\* checkResponseError, of the status code and the value of
\* resp.Header.Get("X-RateLimit-Remaining"), "" when the header is absent.
checkResponseError(status, remaining) ==
  CASE status \in {200, 201} -> "nil"
    [] status = 404 -> "ErrNotFound"
    [] status = 409 -> "ErrConflict"
    [] status = 401 -> "ErrUnauthorized"
    [] status = 403 -> IF remaining = "0" THEN "ErrRateLimited" ELSE "ErrUnauthorized"
    [] status = 429 -> "ErrRateLimited"
    [] OTHER -> "GitHub API error"

\* A response arrives and checkResponseError is called on it.
CheckResponse ==
  /\ arg # NotCalled /\ ret = NotCalled
  /\ ret' = [called |-> TRUE, err |-> checkResponseError(arg.status, arg.remaining)]
  /\ UNCHANGED <<now, authorizePin, limit, tokens, codes, clients, rnd, delivered, hist,
                 pc, req, loc, resp, limiterVars, persistVars, lockVars, github, tool, arg>>

\* ---------------------------------------------------------------- the tools
\* strings.TrimSpace and strings.Contains, strings.ToLower on the letters the
\* inputs are made of.
RECURSIVE TrimSpace(_)
TrimSpace(str) ==
  IF str = "" THEN ""
  ELSE IF SubSeq(str, 1, 1) = " " THEN TrimSpace(SubSeq(str, 2, Len(str)))
  ELSE IF SubSeq(str, Len(str), Len(str)) = " " THEN TrimSpace(SubSeq(str, 1, Len(str) - 1))
  ELSE str

Contains(str, substr) ==
  \E i \in 1..(Len(str) + 1) :
    i + Len(substr) - 1 <= Len(str) /\ SubSeq(str, i, i + Len(substr) - 1) = substr

RECURSIVE ToLower(_)
ToLower(str) ==
  IF str = "" THEN ""
  ELSE (CASE SubSeq(str, 1, 1) = "A" -> "a"
          [] SubSeq(str, 1, 1) = "B" -> "b"
          [] OTHER -> SubSeq(str, 1, 1)) \o ToLower(SubSeq(str, 2, Len(str)))

\* Sequence s without its i-th element: append(s[:idx], s[idx+1:]...).
RemoveAt(s, i) == SubSeq(s, 1, i - 1) \o SubSeq(s, i + 1, Len(s))

\* The SHA the Contents API reports for a file: a digest of its content, equal
\* for equal contents and, in the model, different for different ones.
NoSHA == <<>>
SHA(content) == <<"sha", content>>

Todo(id, text, priority, completed) ==
  [ID |-> id, Text |-> text, Priority |-> priority, Completed |-> completed]

\* What a tool returns: its output struct and the Go error.
Out(success, message, err) == [Success |-> success, Message |-> message, err |-> err]
NoOut == Out(FALSE, "", "")
ConflictMessage == "File was modified by another process. Please try again."

NoInput == [Text |-> "", Priority |-> "", ID |-> ""]
ToolIdle ==
  [pc |-> "idle", op |-> "", input |-> NoInput, content |-> NoTodos, sha |-> NoSHA,
   status |-> 0, out |-> NoOut]

\* The tool call g returns out without another request to GitHub.
ToolReturns(g, op, input, out) ==
  tool' = [tool EXCEPT ![g] = [ToolIdle EXCEPT !.pc = "done", !.op = op, !.input = input,
                                               !.out = out]]

\* ReadFile as the tools call it: GET of todos.md, answered with the content
\* and its SHA, or with a status checkResponseError turns into an error.
ReadStatuses == {200, 401, 404}

ToolReads(g, op, input) ==
  \E status \in ReadStatuses :
    IF checkResponseError(status, "") = "nil"
    THEN tool' = [tool EXCEPT ![g] = [ToolIdle EXCEPT !.pc = "read", !.op = op,
                                                      !.input = input,
                                                      !.content = github.content,
                                                      !.sha = SHA(github.content)]]
    ELSE ToolReturns(g, op, input, Out(FALSE, "", "reading todos.md"))

\* addTodo up to the return of ReadFile.
addTodoRead(g, input) ==
  /\ tool[g].pc = "idle"
  /\ IF TrimSpace(input.Text) = ""
     THEN ToolReturns(g, "addTodo", input, Out(FALSE, "Todo text cannot be empty", ""))
     ELSE ToolReads(g, "addTodo", input)
  /\ UNCHANGED <<now, authorizePin, limit, tokens, codes, clients, rnd, delivered, hist,
                 pc, req, loc, resp, limiterVars, persistVars, lockVars, github, arg, ret>>

\* completeTodo up to the return of ReadFile.
completeTodoRead(g, input) ==
  /\ tool[g].pc = "idle"
  /\ IF TrimSpace(input.Text) = "" /\ TrimSpace(input.ID) = ""
     THEN ToolReturns(g, "completeTodo", input,
                      Out(FALSE, "Either text or id must be provided", ""))
     ELSE ToolReads(g, "completeTodo", input)
  /\ UNCHANGED <<now, authorizePin, limit, tokens, codes, clients, rnd, delivered, hist,
                 pc, req, loc, resp, limiterVars, persistVars, lockVars, github, arg, ret>>

\* addTodo: the priority of the input, "" when it is none of the three.
PriorityOf(priority) ==
  CASE ToLower(priority) = "high" -> "high"
    [] ToLower(priority) = "someday" -> "someday"
    [] ToLower(priority) \in {"normal", ""} -> "normal"
    [] OTHER -> ""

\* completeTodo: the indices of the active todos the input selects, the first
\* with the ID when an ID is given, all those whose text contains the text
\* otherwise.
Matches(active, input) ==
  IF TrimSpace(input.ID) # ""
  THEN LET hits == {i \in 1..Len(active) : active[i].ID = TrimSpace(input.ID)}
       IN IF hits = {} THEN {} ELSE {CHOOSE i \in hits : \A j \in hits : i <= j}
  ELSE {i \in 1..Len(active) :
          Contains(ToLower(active[i].Text), ToLower(TrimSpace(input.Text)))}

\* What the tool makes of the content it read: the new content, or the output
\* it returns without writing.  id is what storage.GenerateID returns.
Modified(op, input, content, id) ==
  IF op = "addTodo"
  THEN IF PriorityOf(input.Priority) = ""
       THEN [write |-> FALSE, out |-> Out(FALSE, "Invalid priority", "")]
       ELSE [write |-> TRUE,
             content |-> [content EXCEPT !.Active =
                            Append(@, Todo(id, TrimSpace(input.Text),
                                           PriorityOf(input.Priority), FALSE))]]
  ELSE LET matches == Matches(content.Active, input) IN
       IF matches = {}
       THEN [write |-> FALSE, out |-> Out(FALSE, "No active todo found", "")]
       ELSE IF Cardinality(matches) > 1
       THEN [write |-> FALSE, out |-> Out(FALSE, "Multiple todos match", "")]
       ELSE LET idx == CHOOSE i \in matches : TRUE IN
            [write |-> TRUE,
             content |-> [Active |-> RemoveAt(content.Active, idx),
                          Completed |-> <<[content.Active[idx] EXCEPT !.Completed = TRUE]>>
                                          \o content.Completed]]

\* A write that sends the SHA the file has now.
WriteSHA_Latest(t, current) == SHA(current)

\* The sha argument of the tool's WriteFile: the one its ReadFile returned.
WriteSHA(t, current) == t.sha

\* The Contents API on a PUT with sha when the file has content current: it
\* may fail before looking at the file; otherwise it answers 409 when sha is
\* not the file's SHA, and 200, having stored the content, when it is.
WriteStatuses(sha, current) ==
  {401, 500} \cup (IF sha = SHA(current) THEN {200} ELSE {409})

\* The tool's output after WriteFile returned err.
WriteOut(err) ==
  IF err = "nil" THEN Out(TRUE, "item", "")
  ELSE IF err = "ErrConflict" THEN Out(FALSE, ConflictMessage, "")
  ELSE Out(FALSE, "", "writing todos.md")

\* addTodo and completeTodo from the return of ReadFile: parse, modify,
\* serialize, WriteFile with the SHA read, and the output.
ToolWrites(g) ==
  /\ tool[g].pc = "read"
  /\ \E id \in TodoIDs :
       LET t == tool[g]
           m == Modified(t.op, t.input, t.content, id)
       IN IF ~m.write
          THEN /\ tool' = [tool EXCEPT ![g].pc = "done", ![g].out = m.out]
               /\ UNCHANGED github
          ELSE \E status \in WriteStatuses(WriteSHA(t, github.content), github.content) :
                 /\ github' = IF status = 200
                              THEN [content |-> m.content, commits |-> github.commits + 1]
                              ELSE github
                 /\ (status = 200 => github.commits < MaxCommits)
                 /\ tool' = [tool EXCEPT ![g].pc = "done", ![g].status = status,
                                         ![g].out = WriteOut(checkResponseError(status, ""))]
  /\ UNCHANGED <<now, authorizePin, limit, tokens, codes, clients, rnd, delivered, hist,
                 pc, req, loc, resp, limiterVars, persistVars, lockVars, arg, ret>>

\* The output reaches the client; g takes the next call.
ToolDone(g) ==
  /\ tool[g].pc = "done"
  /\ tool' = [tool EXCEPT ![g] = ToolIdle]
  /\ UNCHANGED <<now, authorizePin, limit, tokens, codes, clients, rnd, delivered, hist,
                 pc, req, loc, resp, limiterVars, persistVars, lockVars, github, arg, ret>>

\* An OAuth server by itself: todos.md as the repository has it, no tool call.
ToolsConstructed ==
  /\ github = [content |-> NoTodos, commits |-> 0]
  /\ tool = [g \in ToolCallers |-> ToolIdle]
  /\ arg = NotCalled
  /\ ret = NotCalled

\* ------------------------------------------------------------ calculateStreak
\* Dates are days counted from a fixed day: the order of the "2006-01-02"
\* strings is the order of the days, and prevDate is the day before.
prevDate(date) == date - 1

ContributionDay(date, count) == [Date |-> date, ContributionCount |-> count]

\* sort.Slice(sorted, func(i, j) { return sorted[i].Date > sorted[j].Date }).
RECURSIVE SortedDescending(_)
SortedDescending(days) ==
  IF days = <<>> THEN <<>>
  ELSE LET i == CHOOSE k \in 1..Len(days) :
                  /\ \A j \in 1..Len(days) : days[j].Date <= days[k].Date
                  /\ \A j \in 1..(k - 1) : days[j].Date < days[k].Date
       IN <<days[i]>> \o SortedDescending(SubSeq(days, 1, i - 1) \o SubSeq(days, i + 1, Len(days)))

\* The loop of calculateStreak from the i-th day of sorted on.
RECURSIVE StreakFrom(_, _, _, _, _)
StreakFrom(sorted, i, streak, expectDate, today) ==
  IF i > Len(sorted) THEN streak
  ELSE LET day == sorted[i]
           yesterday == today - 1
       IN IF streak = 0
          THEN IF day.Date # today /\ day.Date # yesterday
               THEN IF day.Date < yesterday THEN 0
                    ELSE StreakFrom(sorted, i + 1, streak, expectDate, today)
               ELSE IF day.ContributionCount > 0
               THEN StreakFrom(sorted, i + 1, 1, day.Date, today)
               ELSE StreakFrom(sorted, i + 1, streak, expectDate, today)
          ELSE IF day.Date = prevDate(expectDate)
               THEN IF day.ContributionCount > 0
                    THEN StreakFrom(sorted, i + 1, streak + 1, day.Date, today)
                    ELSE streak
               ELSE IF day.Date < prevDate(expectDate) THEN streak
               ELSE StreakFrom(sorted, i + 1, streak, expectDate, today)

\* The loop on the days in the order they were given.
calculateStreak_Unsorted(days, today) == StreakFrom(days, 1, 0, today, today)

\* calculateStreak(days) on the day today.
calculateStreak(days, today) ==
  IF Len(days) = 0 THEN 0
  ELSE StreakFrom(SortedDescending(days), 1, 0, today, today)

\* The contribution calendar has been fetched; calculateStreak is called on it.
CalculateStreak ==
  /\ arg # NotCalled /\ ret = NotCalled
  /\ ret' = [called |-> TRUE, streak |-> calculateStreak(arg.days, arg.today)]
  /\ UNCHANGED <<now, authorizePin, limit, tokens, codes, clients, rnd, delivered, hist,
                 pc, req, loc, resp, limiterVars, persistVars, lockVars, github, tool, arg>>

\* ------------------------------------------------------------ Persistence
\* filepath.Join(dataDir, "oauth_state.json") for the configured data directory.
StatePath == "data/oauth_state.json"

\* encoding/json on time.Time: the RFC 3339 text of an instant, and back.  No
\* time of the model lies beyond the clock's bound plus the longest lifetime.
MarshalTime(t) == "T" \o ToString(t) \o "Z"
UnmarshalTime(str) == CHOOSE t \in 0..(limit.time + RefreshTTL + 1) : MarshalTime(t) = str

\* encoding/json on TokenType, an int: AccessToken = 0, RefreshToken = 1.
MarshalTokenType(type) == IF type = AccessToken THEN 0 ELSE 1
UnmarshalTokenType_Access(n) == AccessToken
UnmarshalTokenType(n) == IF n = 0 THEN AccessToken ELSE RefreshToken

\* encoding/json on *TokenInfo.
MarshalTokenInfo(info) ==
  [Type |-> MarshalTokenType(info.Type), ClientID |-> info.ClientID,
   ExpiresAt |-> MarshalTime(info.ExpiresAt), RefreshTokenID |-> info.RefreshTokenID]
UnmarshalTokenInfo(obj) ==
  TokenInfo(UnmarshalTokenType(obj.Type), obj.ClientID, UnmarshalTime(obj.ExpiresAt),
            obj.RefreshTokenID)

\* encoding/json on *ClientInfo: RedirectURIs is an array.
MarshalClientInfo(uris) ==
  [RedirectURIs |-> CHOOSE q \in [1..Cardinality(uris) -> uris] :
                      {q[i] : i \in 1..Cardinality(uris)} = uris]
UnmarshalClientInfo(obj) == {obj.RedirectURIs[i] : i \in DOMAIN obj.RedirectURIs}

\* json.MarshalIndent(PersistentData{tokens, clients, ...}): a complete document.
MarshalIndent(ts, cs) ==
  [kind |-> "snapshot",
   Tokens |-> [k \in DOMAIN ts |-> MarshalTokenInfo(ts[k])],
   Clients |-> [c \in DOMAIN cs |-> MarshalClientInfo(cs[c])]]

\* A file some write of a document left unfinished, one that never was JSON, and
\* one os.ReadFile cannot read (no permission, a directory).
PartialFile == [NoFile EXCEPT !.kind = "partial"]
GarbageFile == [NoFile EXCEPT !.kind = "garbage"]
UnreadableFile == [NoFile EXCEPT !.kind = "unreadable"]

\* Save gathering every token, expired or not.
NonExpired_All(ts, t) == ts

\* Save, the tokens it gathers: those with now.Before(info.ExpiresAt).
NonExpired(ts, t) == [k \in {x \in DOMAIN ts : Before(t, ts[x].ExpiresAt)} |-> ts[k]]

\* Whether Load returns an error: the file is there and os.ReadFile or
\* json.Unmarshal refuses it.
LoadFails(file) == file.kind \in {"unreadable", "partial", "garbage"}

\* A Load that takes a file it cannot use for an empty state and empties the
\* client store.
LoadedClients_Reset(cs, file) ==
  IF file.kind \in {"unreadable", "partial", "garbage"} THEN EmptyMap
  ELSE IF file.kind # "snapshot" THEN cs
  ELSE LET loaded == (DOMAIN file.Clients) \ {DefaultClientID}
       IN [c \in (DOMAIN cs) \cup loaded |->
             IF c \in loaded THEN UnmarshalClientInfo(file.Clients[c]) ELSE cs[c]]

\* Load, the token store it leaves: each token of the snapshot with
\* now.Before(info.ExpiresAt) is put into the map.
LoadedTokens(ts, file, t) ==
  IF file.kind # "snapshot" THEN ts
  ELSE LET live == {k \in DOMAIN file.Tokens :
                      Before(t, UnmarshalTokenInfo(file.Tokens[k]).ExpiresAt)}
       IN [k \in (DOMAIN ts) \cup live |->
             IF k \in live THEN UnmarshalTokenInfo(file.Tokens[k]) ELSE ts[k]]

\* Load putting every client of the snapshot into the map.
LoadedClients_All(cs, file) ==
  IF file.kind # "snapshot" THEN cs
  ELSE [c \in (DOMAIN cs) \cup (DOMAIN file.Clients) |->
          IF c \in DOMAIN file.Clients THEN UnmarshalClientInfo(file.Clients[c]) ELSE cs[c]]

\* Load, the client store it leaves: each client of the snapshot but
\* "claude-ai" is put into the map.
LoadedClients(cs, file) ==
  IF file.kind # "snapshot" THEN cs
  ELSE LET loaded == (DOMAIN file.Clients) \ {DefaultClientID}
       IN [c \in (DOMAIN cs) \cup loaded |->
             IF c \in loaded THEN UnmarshalClientInfo(file.Clients[c]) ELSE cs[c]]

\* A Persistence without a data directory.
Disabled_Never(path) == FALSE

\* The test p.filePath == "" that opens Start, Stop, Load, Save and TriggerSave.
Disabled(path) == path = ""

\* Start: Load (an error is logged, not returned), then go p.periodicSave().
Start ==
  /\ life.at = "new"
  /\ life' = Life("started", "Start")
  /\ IF Disabled(filePath)
     THEN UNCHANGED <<tokens, clients, loop>>
     ELSE /\ tokens' = LoadedTokens(tokens, disk, now)
          /\ clients' = LoadedClients(clients, disk)
          /\ loop' = "select"
  /\ UNCHANGED <<now, authorizePin, limit, codes, rnd, delivered, hist, pc, req, loc, resp,
                 limiterVars, lockVars, toolVars, filePath, disk, tmpFile, stopCh, triggered, saving, snap>>

\* Load, called by the owner while the server runs: without a data directory
\* it returns, with one the owner goes to p.mu.Lock().
LoadCall ==
  /\ life.at = "started"
  /\ life' = IF Disabled(filePath) THEN Life("started", "Load") ELSE Life("loading", "Load")
  /\ UNCHANGED <<now, authorizePin, limit, tokens, codes, clients, rnd, delivered, hist,
                 pc, req, loc, resp, limiterVars, lockVars, toolVars,
                 filePath, disk, tmpFile, stopCh, loop, triggered, saving, snap>>

\* Load, once it has p.mu: the file is read and the stores are filled, or the
\* error of os.ReadFile or json.Unmarshal is returned.
LoadRuns ==
  /\ life.at = "loading"
  /\ saving = NoSave
  /\ life' = [Life("started", "Load") EXCEPT !.err = IF LoadFails(disk) THEN "error" ELSE ""]
  /\ tokens' = LoadedTokens(tokens, disk, now)
  /\ clients' = LoadedClients(clients, disk)
  /\ UNCHANGED <<now, authorizePin, limit, codes, rnd, delivered, hist, pc, req, loc, resp,
                 limiterVars, lockVars, toolVars, filePath, disk, tmpFile, stopCh, loop, triggered, saving, snap>>

\* Save, called by the owner: with a data directory the owner is inside Save
\* until it returns.
SaveCall ==
  /\ life.at = "started"
  /\ life' = IF Disabled(filePath) THEN Life("started", "Save") ELSE Life("saving", "Save")
  /\ UNCHANGED <<now, authorizePin, limit, tokens, codes, clients, rnd, delivered, hist,
                 pc, req, loc, resp, limiterVars, lockVars, toolVars,
                 filePath, disk, tmpFile, stopCh, loop, triggered, saving, snap>>

\* TriggerSave: go func() { p.Save() }.
TriggerSave ==
  /\ life.at = "started"
  /\ life' = Life("started", "TriggerSave")
  /\ triggered' = IF Disabled(filePath) THEN triggered ELSE triggered + 1
  /\ triggered' <= MaxTriggers
  /\ UNCHANGED <<now, authorizePin, limit, tokens, codes, clients, rnd, delivered, hist,
                 pc, req, loc, resp, limiterVars, lockVars, toolVars,
                 filePath, disk, tmpFile, stopCh, loop, saving, snap>>

\* Stop: close(p.stopCh), then the final Save.
Stop ==
  /\ life.at = "started"
  /\ IF Disabled(filePath)
     THEN life' = Life("stopped", "Stop") /\ UNCHANGED stopCh
     ELSE life' = Life("stopping", "Stop") /\ stopCh' = "closed"
  /\ UNCHANGED <<now, authorizePin, limit, tokens, codes, clients, rnd, delivered, hist,
                 pc, req, loc, resp, limiterVars, lockVars, toolVars,
                 filePath, disk, tmpFile, loop, triggered, saving, snap>>

\* periodicSave, case <-ticker.C: the loop goes to call Save.
LoopTick ==
  /\ loop = "select"
  /\ loop' = "save"
  /\ UNCHANGED <<now, authorizePin, limit, tokens, codes, clients, rnd, delivered, hist,
                 pc, req, loc, resp, limiterVars, lockVars, toolVars,
                 filePath, disk, tmpFile, stopCh, life, triggered, saving, snap>>

\* A loop that never finds its stop channel ready.
Ready_Never(ch) == FALSE

\* A receive from a channel nothing is sent on: ready once the channel is closed.
Ready(ch) == ch = "closed"

\* periodicSave, case <-p.stopCh.
LoopStop ==
  /\ loop = "select"
  /\ Ready(stopCh)
  /\ loop' = "returned"
  /\ UNCHANGED <<now, authorizePin, limit, tokens, codes, clients, rnd, delivered, hist,
                 pc, req, loc, resp, limiterVars, lockVars, toolVars,
                 filePath, disk, tmpFile, stopCh, life, triggered, saving, snap>>

\* The callers of Save, and whether one stands at p.mu.Lock().
SaveCallers == {"call", "stop", "loop", "trigger"}

AtSave(c) ==
  \/ c = "call" /\ life.at = "saving"
  \/ c = "stop" /\ life.at = "stopping"
  \/ c = "loop" /\ loop = "save"
  \/ c = "trigger" /\ triggered > 0

\* Save returns to its caller c.
SaveReturns(c) ==
  /\ life' = IF c = "call" THEN Life("started", "Save")
             ELSE IF c = "stop" THEN Life("stopped", "Stop")
             ELSE life
  /\ loop' = IF c = "loop" THEN "select" ELSE loop
  /\ saving' = NoSave

\* Save: p.mu.Lock(), then the tokens gathered under the token store's RLock.
SaveGatherTokens(c) ==
  /\ AtSave(c)
  /\ saving = NoSave
  /\ saving' = [NoSave EXCEPT !.caller = c, !.pc = "tokens",
                              !.Tokens = NonExpired(tokens, now),
                              !.srcTokens = tokens, !.at = now,
                              !.closed = (stopCh = "closed")]
  /\ triggered' = IF c = "trigger" THEN triggered - 1 ELSE triggered
  /\ UNCHANGED <<now, authorizePin, limit, tokens, codes, clients, rnd, delivered, hist,
                 pc, req, loc, resp, limiterVars, lockVars, toolVars,
                 filePath, disk, tmpFile, stopCh, life, loop, snap>>

\* Save: the clients gathered under the client store's RLock.
SaveGatherClients ==
  /\ saving.pc = "tokens"
  /\ saving' = [saving EXCEPT !.pc = "clients", !.Clients = clients]
  /\ UNCHANGED <<now, authorizePin, limit, tokens, codes, clients, rnd, delivered, hist,
                 pc, req, loc, resp, limiterVars, lockVars, toolVars,
                 filePath, disk, tmpFile, stopCh, life, loop, triggered, snap>>

\* A Save that writes the document to filePath itself.
WriteTarget_InPlace(tmp, file, written) == [tmp |-> tmp, file |-> written]

\* os.WriteFile(tmpFile, ...): what the two files are once `written` is at tmpFile.
WriteTarget(tmp, file, written) == [tmp |-> written, file |-> file]

\* Save: os.WriteFile has truncated the temporary file and written part of the
\* document.
SaveWriteBegins ==
  /\ saving.pc = "clients"
  /\ saving' = [saving EXCEPT !.pc = "writing"]
  /\ tmpFile' = WriteTarget(tmpFile, disk, PartialFile).tmp
  /\ disk' = WriteTarget(tmpFile, disk, PartialFile).file
  /\ UNCHANGED <<now, authorizePin, limit, tokens, codes, clients, rnd, delivered, hist,
                 pc, req, loc, resp, limiterVars, lockVars, toolVars,
                 filePath, stopCh, life, loop, triggered, snap>>

\* Save: os.WriteFile has written all of the document.
SaveWriteEnds ==
  /\ saving.pc = "writing"
  /\ saving' = [saving EXCEPT !.pc = "written"]
  /\ LET data == MarshalIndent(saving.Tokens, saving.Clients) IN
     /\ tmpFile' = WriteTarget(tmpFile, disk, data).tmp
     /\ disk' = WriteTarget(tmpFile, disk, data).file
  /\ UNCHANGED <<now, authorizePin, limit, tokens, codes, clients, rnd, delivered, hist,
                 pc, req, loc, resp, limiterVars, lockVars, toolVars,
                 filePath, stopCh, life, loop, triggered, snap>>

\* Save: os.WriteFile returns an error; Save returns it, the file half written.
SaveWriteFails ==
  /\ saving.pc = "writing"
  /\ SaveReturns(saving.caller)
  /\ UNCHANGED <<now, authorizePin, limit, tokens, codes, clients, rnd, delivered, hist,
                 pc, req, loc, resp, limiterVars, lockVars, toolVars,
                 filePath, disk, tmpFile, stopCh, triggered, snap>>

\* Save: os.Rename(tmpFile, filePath) puts the temporary file in the place of
\* the file in one step; Save returns and p.mu is free.
SaveRename ==
  /\ saving.pc = "written"
  /\ disk' = tmpFile
  /\ tmpFile' = NoFile
  /\ snap' = [taken |-> TRUE, Tokens |-> saving.srcTokens, Clients |-> saving.Clients,
              at |-> saving.at, closed |-> saving.closed]
  /\ SaveReturns(saving.caller)
  /\ UNCHANGED <<now, authorizePin, limit, tokens, codes, clients, rnd, delivered, hist,
                 pc, req, loc, resp, limiterVars, lockVars, toolVars, filePath, stopCh, triggered>>

\* The process dies, wherever its goroutines are, and is started again: the
\* stores are constructed anew, the files are what they were.
Restart ==
  /\ life.at # "new"
  /\ tokens' = EmptyMap
  /\ codes' = EmptyMap
  /\ clients' = [c \in {DefaultClientID} |-> DefaultRedirectURIs]
  /\ pc' = [p \in Procs |-> "idle"]
  /\ req' = [p \in Procs |-> NoReq]
  /\ loc' = [p \in Procs |-> NoLoc]
  /\ resp' = [p \in Procs |-> NoResp]
  /\ stopCh' = "open"
  /\ life' = Life("new", "NewPersistence")
  /\ loop' = "none"
  /\ triggered' = 0
  /\ saving' = NoSave
  /\ UNCHANGED <<now, authorizePin, limit, rnd, delivered, hist, limiterVars, lockVars, toolVars,
                 filePath, disk, tmpFile, snap>>

\* ------------------------------------------------------- background loops
\* TokenStore.cleanupExpired, one tick of its ticker.
TokenStoreCleanup ==
  /\ Collected
  /\ TokensToSweep(tokens, now) # {}
  /\ tokens' = MapDelAll(tokens, TokensToSweep(tokens, now))
  /\ UNCHANGED <<now, authorizePin, limit, codes, clients, rnd, delivered, hist, pc, req, loc, resp>>
  /\ UNCHANGED <<limiterVars, persistVars, lockVars, toolVars>>

\* AuthCodeStore.cleanupExpired, one tick of its ticker.
AuthCodeStoreCleanup ==
  /\ Collected
  /\ CodesToSweep(codes, now) # {}
  /\ codes' = MapDelAll(codes, CodesToSweep(codes, now))
  /\ UNCHANGED <<now, authorizePin, limit, tokens, clients, rnd, delivered, hist, pc, req, loc, resp>>
  /\ UNCHANGED <<limiterVars, persistVars, lockVars, toolVars>>

\* Time passes.
Tick ==
  /\ Collected
  /\ now < limit.time
  /\ now' = now + 1
  /\ UNCHANGED <<authorizePin, limit, tokens, codes, clients, rnd, delivered, hist, pc, req, loc, resp>>
  /\ UNCHANGED <<limiterVars, persistVars, lockVars, toolVars>>

\* The handler's goroutine ends and the response is with the client.
Return(p) ==
  /\ pc[p] = "done"
  /\ pc' = [pc EXCEPT ![p] = "idle"]
  /\ req' = [req EXCEPT ![p] = NoReq]
  /\ resp' = [resp EXCEPT ![p] = NoResp]
  /\ UNCHANGED <<now, authorizePin, limit, tokens, codes, clients, rnd, delivered, hist, loc>>
  /\ UNCHANGED <<limiterVars, persistVars, lockVars, toolVars>>

\* ------------------------------------------------------------ the requests
AuthorizeRequest(method, clientID, redirectURI, responseType, challenge, chMethod, pin, action) ==
  [ep |-> "authorize", method |-> method, client_id |-> clientID,
   redirect_uri |-> redirectURI, response_type |-> responseType,
   code_challenge |-> challenge, code_challenge_method |-> chMethod,
   pin |-> pin, action |-> action]

TokenRequest(method, grantType, code, verifier, clientID, redirectURI, refreshToken) ==
  [ep |-> "token", method |-> method, grant_type |-> grantType, code |-> code,
   code_verifier |-> verifier, client_id |-> clientID, redirect_uri |-> redirectURI,
   refresh_token |-> refreshToken]

\* Requests of the authorization flows: GET and POST /authorize ...
FlowAuthorizeRequests ==
  {AuthorizeRequest("GET", DefaultClientID, ClaudeCallback, "code", S256("v1"), "S256", "", ""),
   AuthorizeRequest("POST", DefaultClientID, ClaudeCallback, "", S256("v1"), "S256",
                    ConfiguredPin, "approve"),
   AuthorizeRequest("POST", DefaultClientID, ClaudeCallback, "", S256("v1"), "S256",
                    "0000", "approve"),
   AuthorizeRequest("POST", "unregistered", EvilCallback, "", "", "plain",
                    ConfiguredPin, "approve")}

\* ... and POST /token.  A client presents a code or token it was given, a
\* value that was never issued ("bogus"), or nothing.
TokenRequests ==
  {TokenRequest("GET", "", "", "", "", "", ""),
   TokenRequest("POST", "password", "", "", "", "", "")}
  \cup
  {TokenRequest("POST", "authorization_code", k, v, c, u, "") :
     k \in (DOMAIN codes) \cup {"bogus"}, v \in {"v1", "v2"},
     c \in {DefaultClientID, "unregistered"}, u \in {ClaudeCallback, EvilCallback}}
  \cup
  {TokenRequest("POST", "authorization_code", "", "v1", DefaultClientID, ClaudeCallback, ""),
   TokenRequest("POST", "authorization_code", "bogus", "", DefaultClientID, ClaudeCallback, ""),
   TokenRequest("POST", "authorization_code", "bogus", "v1", "", ClaudeCallback, "")}
  \cup
  {TokenRequest("POST", "refresh_token", "", "", c, "", t) :
     c \in {"", DefaultClientID, "unregistered"}, t \in delivered \cup {"", "bogus"}}

RaceAuthorizeRequests ==
  {AuthorizeRequest("GET", DefaultClientID, ClaudeCallback, "code", S256("v1"), "S256", "", ""),
   AuthorizeRequest("POST", DefaultClientID, ClaudeCallback, "", S256("v1"), "S256",
                    "", "approve")}

\* Redemptions of a code by the client it was issued to, with the verifier of
\* its challenge or with another one.
RedeemTokenRequests ==
  {TokenRequest("POST", "authorization_code", k, v, DefaultClientID, ClaudeCallback, "") :
     k \in DOMAIN codes, v \in {"v1", "v2"}}

\* Requests of well-behaved clients: the code with the parameters it was
\* issued for, a refresh token that was delivered.
RaceTokenRequests ==
  {TokenRequest("POST", "authorization_code", k, "v1", DefaultClientID, ClaudeCallback, "") :
     k \in DOMAIN codes}
  \cup
  {TokenRequest("POST", "refresh_token", "", "", "", "", t) : t \in delivered}

\* What /authorize binds a code to: the parameters of a well-formed request
\* of a registered client, and each way of getting one of them wrong.
Binding(clientID, redirectURI, challenge, chMethod) ==
  [client_id |-> clientID, redirect_uri |-> redirectURI, code_challenge |-> challenge,
   code_challenge_method |-> chMethod]

Bindings ==
  {Binding(c, ClaudeCallback, S256("v1"), "S256") : c \in {"", "unregistered", DefaultClientID}}
  \cup
  {Binding(DefaultClientID, u, S256("v1"), "S256") :
     u \in {"", EvilCallback, ClaudeCallback \o "/evil"}}
  \cup
  {Binding(c, AppCallback, S256("v1"), "S256") : c \in DOMAIN clients}
  \cup
  {Binding(DefaultClientID, ClaudeCallback, "", "S256")}
  \cup
  {Binding(DefaultClientID, ClaudeCallback, S256("v1"), m) : m \in {"", "plain"}}

\* The bindings a consent form is posted with: those of Bindings that differ
\* in what a stored code records.
PostBindings ==
  {b \in Bindings : b.client_id # "" /\ b.redirect_uri # "" /\ b.code_challenge_method # ""}

AuthorizeRequests ==
  {AuthorizeRequest("GET", b.client_id, b.redirect_uri, rt, b.code_challenge,
                    b.code_challenge_method, "", "") :
     b \in Bindings, rt \in {"", "code", "token"}}
  \cup
  {AuthorizeRequest("POST", b.client_id, b.redirect_uri, "", b.code_challenge,
                    b.code_challenge_method, pin, action) :
     b \in PostBindings, pin \in {ConfiguredPin, "0000"}, action \in {"approve", "deny"}}

RegisterRequests ==
  {[ep |-> "register", method |-> "POST", json_ok |-> j, redirect_uris |-> us] :
     j \in BOOLEAN, us \in {{}, {AppCallback, EvilCallback}}}
  \cup
  {[ep |-> "register", method |-> "GET", json_ok |-> TRUE, redirect_uris |-> {}]}

\* ------------------------------------------------------------------ locks
\* The goroutines seen as the lock operations they perform.  Every store method
\* is one or two critical sections; a handler is a sequence of calls of store
\* methods; Save and Load take the store locks inside Persistence.mu.
Mutexes == {"Persistence.mu", "TokenStore.mu", "ClientStore.mu", "AuthCodeStore.mu",
            "RateLimiter.mu"}
StoreMutexes == {"TokenStore.mu", "ClientStore.mu"}
Unlocked == [w |-> "", r |-> {}, q |-> {}]

\* The goroutines that call Save or Load (the owner of the Persistence calls
\* Start, Load, Save and Stop; the goroutine of periodicSave stands for the
\* ones TriggerSave starts as well, which call Save as it does), the sweeps,
\* and the request handlers.
PersistenceGoroutines == {"owner", "periodicSave"}
SweepGoroutines == {"TokenStore.cleanupExpired", "AuthCodeStore.cleanupExpired"}
HandlerGoroutines == {"handler" \o ToString(i) : i \in 1..LockHandlers}
Goroutines == PersistenceGoroutines \cup SweepGoroutines \cup HandlerGoroutines

Lock(m) == [op |-> "Lock", m |-> m]
Unlock(m) == [op |-> "Unlock", m |-> m]
RLock(m) == [op |-> "RLock", m |-> m]
RUnlock(m) == [op |-> "RUnlock", m |-> m]
\* One critical section: s.mu.Lock() ... s.mu.Unlock(), s.mu.RLock() ... s.mu.RUnlock().
Locked(m) == <<Lock(m), Unlock(m)>>
RLocked(m) == <<RLock(m), RUnlock(m)>>

RECURSIVE Times(_, _)
Times(n, ops) == IF n = 0 THEN <<>> ELSE ops \o Times(n - 1, ops)

\* TokenStore.ValidateToken: the lookup under RLock, and the delete of an
\* expired token under Lock after the RLock was released.
ValidateTokenLocks(expired) ==
  RLocked("TokenStore.mu") \o (IF expired THEN Locked("TokenStore.mu") ELSE <<>>)
\* The store methods the handlers call, each returning with no lock held
\* before the handler calls the next: ClientStore.Get (ValidateRedirectURI,
\* the consent page) and Register; AuthCodeStore.Store and Get;
\* GenerateRefreshToken, GenerateAccessToken and RevokeToken; ValidateToken
\* (the refresh grant, the bearer middleware); RateLimiter.Allow.
HandlerLocks ==
  { RLocked("ClientStore.mu"), Locked("ClientStore.mu"), Locked("AuthCodeStore.mu"),
    Locked("TokenStore.mu"), Locked("RateLimiter.mu") }
  \cup { ValidateTokenLocks(expired) : expired \in BOOLEAN }

\* Persistence.Save: Persistence.mu until the return; the tokens gathered
\* under the TokenStore's RLock, then the clients under the ClientStore's.
SaveLocks_Nested ==
  <<Lock("Persistence.mu"), RLock("TokenStore.mu"), RLock("ClientStore.mu"),
    RUnlock("ClientStore.mu"), RUnlock("TokenStore.mu"), Unlock("Persistence.mu")>>
SaveLocks ==
  <<Lock("Persistence.mu")>> \o RLocked("TokenStore.mu") \o RLocked("ClientStore.mu")
    \o <<Unlock("Persistence.mu")>>
\* Persistence.Load: Persistence.mu until the return; one critical section of
\* the TokenStore for each token it restores, then one of the ClientStore for
\* each client.
LoadLocks(nTokens, nClients) ==
  <<Lock("Persistence.mu")>> \o Times(nTokens, Locked("TokenStore.mu"))
    \o Times(nClients, Locked("ClientStore.mu")) \o <<Unlock("Persistence.mu")>>
\* What each goroutine may call: the owner Start or Load (a snapshot of up to
\* LoadItems tokens and clients), Save or Stop (the final Save).
PathsOf(g) ==
  CASE g = "owner" ->
         {SaveLocks} \cup {LoadLocks(nt, nc) : nt \in 0..LoadItems, nc \in 0..LoadItems}
    [] g = "periodicSave" -> {SaveLocks}
    [] g = "TokenStore.cleanupExpired" -> {Locked("TokenStore.mu")}
    [] g = "AuthCodeStore.cleanupExpired" -> {Locked("AuthCodeStore.mu")}
    [] OTHER -> HandlerLocks

\* g holds m, as writer or as reader.
Holds(g, m) == mu[m].w = g \/ g \in mu[m].r
\* sync.RWMutex: Lock waits for the writer and the readers to leave; RLock
\* waits for the writer and, once a Lock is blocked, for that Lock.
CanLock(g, m) == mu[m].w = "" /\ mu[m].r = {}
CanRLock(g, m) == mu[m].w = "" /\ mu[m].q = {}
\* Whether goroutine g can perform its next lock operation.
CanStep(g) ==
  /\ run[g] # <<>>
  /\ LET o == Head(run[g]) IN
       CASE o.op = "Lock" -> CanLock(g, o.m) \/ g \notin mu[o.m].q
         [] o.op = "RLock" -> CanRLock(g, o.m)
         [] OTHER -> TRUE

\* A goroutine calls a method: a handler the next store method of its request.
Call(g) ==
  /\ run[g] = <<>>
  /\ \E path \in PathsOf(g) : run' = [run EXCEPT ![g] = path]
  /\ UNCHANGED <<now, authorizePin, limit, tokens, codes, clients, rnd, delivered, hist,
                 pc, req, loc, resp, limiterVars, persistVars, mu, saves, toolVars>>

\* m.Lock() by g: g takes m, or blocks until it can.
LockStep(g) ==
  /\ run[g] # <<>>
  /\ Head(run[g]).op = "Lock"
  /\ LET m == Head(run[g]).m IN
       IF CanLock(g, m)
       THEN /\ mu' = [mu EXCEPT ![m].w = g, ![m].q = @ \ {g}]
            /\ run' = [run EXCEPT ![g] = Tail(@)]
       ELSE /\ g \notin mu[m].q
            /\ mu' = [mu EXCEPT ![m].q = @ \cup {g}]
            /\ UNCHANGED run
  /\ UNCHANGED <<now, authorizePin, limit, tokens, codes, clients, rnd, delivered, hist,
                 pc, req, loc, resp, limiterVars, persistVars, saves, toolVars>>

\* m.RLock() by g.
RLockStep(g) ==
  /\ run[g] # <<>>
  /\ Head(run[g]).op = "RLock"
  /\ LET m == Head(run[g]).m IN
       /\ CanRLock(g, m)
       /\ mu' = [mu EXCEPT ![m].r = @ \cup {g}]
  /\ run' = [run EXCEPT ![g] = Tail(@)]
  /\ UNCHANGED <<now, authorizePin, limit, tokens, codes, clients, rnd, delivered, hist,
                 pc, req, loc, resp, limiterVars, persistVars, saves, toolVars>>

\* m.Unlock() and m.RUnlock() by g.
UnlockStep(g) ==
  /\ run[g] # <<>>
  /\ Head(run[g]).op \in {"Unlock", "RUnlock"}
  /\ LET m == Head(run[g]).m IN
       mu' = [mu EXCEPT ![m].w = IF Head(run[g]).op = "Unlock" THEN "" ELSE @,
                        ![m].r = IF Head(run[g]).op = "RUnlock" THEN @ \ {g} ELSE @]
  /\ run' = [run EXCEPT ![g] = Tail(@)]
  /\ UNCHANGED <<now, authorizePin, limit, tokens, codes, clients, rnd, delivered, hist,
                 pc, req, loc, resp, limiterVars, persistVars, saves, toolVars>>

\* ------------------------------------------------------ Save, generations
\* Save with the files as generations: the n-th snapshot gathered is n; 0 is
\* no snapshot (no file, nothing gathered).  A file being written is not whole.
NoSaves ==
  [gathers |-> 0, of |-> [g \in PersistenceGoroutines |-> 0],
   tmp |-> [gen |-> 0, whole |-> TRUE], writers |-> {}, file |-> [gen |-> 0, whole |-> TRUE]]

Do(what) == [op |-> what, m |-> ""]
\* A Save whose p.mu.Unlock() is not deferred but follows the gathering.
SaveSteps_Unlocked ==
  <<Lock("Persistence.mu"), RLock("TokenStore.mu"), Do("gather"), RUnlock("TokenStore.mu")>>
    \o RLocked("ClientStore.mu")
    \o <<Unlock("Persistence.mu"), Do("WriteFile"), Do("written"), Do("Rename")>>
\* Persistence.Save, whole: p.mu.Lock(); the tokens and the clients gathered;
\* os.WriteFile of the temporary file; os.Rename; the deferred p.mu.Unlock().
SaveSteps ==
  <<Lock("Persistence.mu"), RLock("TokenStore.mu"), Do("gather"), RUnlock("TokenStore.mu")>>
    \o RLocked("ClientStore.mu")
    \o <<Do("WriteFile"), Do("written"), Do("Rename"), Unlock("Persistence.mu")>>

\* Save is called: by periodicSave on a tick or by a goroutine of TriggerSave,
\* and by the owner directly or from Stop.
SaveCalled(g) ==
  /\ run[g] = <<>>
  /\ saves.gathers < MaxSaves
  /\ run' = [run EXCEPT ![g] = SaveSteps]
  /\ UNCHANGED <<now, authorizePin, limit, tokens, codes, clients, rnd, delivered, hist,
                 pc, req, loc, resp, limiterVars, persistVars, mu, saves, toolVars>>

\* The statements of Save between its lock operations, by goroutine g.
SaveStep(g) ==
  /\ run[g] # <<>>
  /\ LET what == Head(run[g]).op IN
       /\ what \in {"gather", "WriteFile", "written", "Rename"}
       /\ saves' =
            CASE what = "gather" ->
                   [saves EXCEPT !.gathers = @ + 1, !.of[g] = saves.gathers + 1]
              [] what = "WriteFile" ->
                   [saves EXCEPT !.tmp = [gen |-> saves.of[g], whole |-> FALSE],
                                 !.writers = @ \cup {g}]
              [] what = "written" ->
                   [saves EXCEPT !.tmp = [gen |-> saves.of[g], whole |-> TRUE],
                                 !.writers = @ \ {g}]
              [] OTHER ->
                   IF saves.tmp.gen = 0 THEN [saves EXCEPT !.of[g] = 0]
                   ELSE [saves EXCEPT !.file = saves.tmp,
                                      !.tmp = [gen |-> 0, whole |-> TRUE], !.of[g] = 0]
  /\ run' = [run EXCEPT ![g] = Tail(@)]
  /\ UNCHANGED <<now, authorizePin, limit, tokens, codes, clients, rnd, delivered, hist,
                 pc, req, loc, resp, limiterVars, persistVars, mu, toolVars>>

\* ---------------------------------------------------------- specification
\* Where a specification stops: successful draws per use, and the clock.
Limit(codes_, tokens_, clients_, time_) ==
  [code |-> codes_, token |-> tokens_, client |-> clients_, time |-> time_]

\* The stores NewTokenStore and NewOAuthServer construct, with
\* OAUTH_AUTHORIZE_PIN one of pins.
StoresConstructed(pins, l) ==
  /\ now = 0
  /\ authorizePin \in pins
  /\ limit = l
  /\ tokens = EmptyMap
  /\ codes = EmptyMap
  /\ clients = [c \in {DefaultClientID} |-> DefaultRedirectURIs]
  /\ rnd = [code |-> 0, token |-> 0, client |-> 0]
  /\ delivered = {}
  /\ hist = [obtained |-> EmptyMap, pairs |-> EmptyMap, linked |-> {}, failed |-> {}]
  /\ pc = [p \in Procs |-> "idle"]
  /\ req = [p \in Procs |-> NoReq]
  /\ loc = [p \in Procs |-> NoLoc]
  /\ resp = [p \in Procs |-> NoResp]
  /\ mu = [m \in Mutexes |-> Unlocked]
  /\ run = [g \in Goroutines |-> <<>>]

\* NewRateLimiter: no address has an entry.
LimiterConstructed ==
  /\ requests = EmptyMap
  /\ calls = <<>>

\* What NewPersistence constructs around the file system it finds: no
\* goroutine started, the channel open, nobody saving.
PersistenceConstructed(paths, files) ==
  /\ filePath \in paths
  /\ disk \in files
  /\ tmpFile = NoFile
  /\ stopCh = "open"
  /\ life = Life("new", "NewPersistence")
  /\ loop = "none"
  /\ triggered = 0
  /\ saving = NoSave
  /\ snap = NoSnap
  /\ saves = NoSaves

\* The server as main.go runs it: main constructs no Persistence, so nothing
\* has a data directory and no snapshot file exists.
Constructed(pins, l) ==
  /\ StoresConstructed(pins, l)
  /\ LimiterConstructed
  /\ ToolsConstructed
  /\ PersistenceConstructed({""}, {NoFile})

\* The authorization-code flow, one request at a time.
Next ==
  \/ \E r \in FlowAuthorizeRequests : authorizeGet(1, r)
  \/ \E r \in FlowAuthorizeRequests : authorizePost(1, r)
  \/ \E r \in TokenRequests : TokenRejectsEarly(1, r)
  \/ \E r \in TokenRequests : handleAuthorizationCodeGrant(1, r)
  \/ issueTokensRefresh(1)
  \/ issueTokensAccess(1)
  \/ Return(1)
  \/ TokenStoreCleanup
  \/ AuthCodeStoreCleanup
  \/ Tick

\* OAUTH_AUTHORIZE_PIN is set or not.
Init == Constructed({"", ConfiguredPin}, Limit(MaxCodes, MaxTokens, MaxClients, MaxTime))

Spec == Init /\ [][Next]_vars

\* Concurrent redemption of authorization codes.
NextRedeem ==
  \/ \E p \in Procs, r \in RaceAuthorizeRequests : authorizeGet(p, r)
  \/ \E p \in Procs, r \in RaceAuthorizeRequests : authorizePost(p, r)
  \/ \E p \in Procs, r \in RedeemTokenRequests : handleAuthorizationCodeGrant(p, r)
  \/ \E p \in Procs : issueTokensRefresh(p)
  \/ \E p \in Procs : issueTokensAccess(p)
  \/ \E p \in Procs : Return(p)
  \/ AuthCodeStoreCleanup
  \/ Tick

InitRedeem == Constructed({""}, Limit(MaxCodes, RaceTokens, MaxClients, ShortTime))

SpecRedeem == InitRedeem /\ [][NextRedeem]_vars

\* Concurrent refresh-token rotation by well-behaved clients.
NextRotate ==
  \/ \E p \in Procs, r \in RaceAuthorizeRequests : authorizeGet(p, r)
  \/ \E p \in Procs, r \in RaceAuthorizeRequests : authorizePost(p, r)
  \/ \E p \in Procs, r \in RaceTokenRequests : handleAuthorizationCodeGrant(p, r)
  \/ \E p \in Procs, r \in RaceTokenRequests : handleRefreshTokenGrant(p, r)
  \/ \E p \in Procs : refreshValidate(p)
  \/ \E p \in Procs : refreshRevoke(p)
  \/ \E p \in Procs : issueTokensRefresh(p)
  \/ \E p \in Procs : issueTokensAccess(p)
  \/ \E p \in Procs : Return(p)
  \/ TokenStoreCleanup
  \/ AuthCodeStoreCleanup
  \/ Tick

InitRotate == Constructed({""}, Limit(MaxCodes, RaceTokens, MaxClients, RotateTime))

SpecRotate == InitRotate /\ [][NextRotate]_vars

\* Every request GET/POST /authorize and POST /register can receive.
NextAuthz ==
  \/ \E r \in AuthorizeRequests : authorizeGet(1, r)
  \/ \E r \in AuthorizeRequests : authorizePost(1, r)
  \/ \E r \in RegisterRequests : Register(1, r)
  \/ Return(1)
  \/ AuthCodeStoreCleanup
  \/ Tick

InitAuthz ==
  Constructed({"", ConfiguredPin}, Limit(MaxCodes, MaxTokens, MaxClients, RotateTime))

SpecAuthz == InitAuthz /\ [][NextAuthz]_vars

\* The token values a caller may hold: every stored one, the empty string and
\* one the store never issued.
StoreKeys == (DOMAIN tokens) \cup {"", "bogus"}

\* Authorization headers: none, another scheme, the scheme in lower case, the
\* scheme without a token, and every token as a bearer token.
BearerRequests ==
  {BearerRequest(h) : h \in {"", "Basic abc", "Bearer", "bearer " \o StaticToken}}
  \cup
  {BearerRequest("Bearer " \o k) : k \in StoreKeys \cup {StaticToken}}

\* refresh_token grants presenting any token a caller may hold.
StoreTokenRequests ==
  {TokenRequest("POST", "refresh_token", "", "", "", "", k) : k \in StoreKeys}

\* The TokenStore under each of its callers, one call at a time: its methods,
\* the bearer middleware and the refresh_token grant.
NextStore ==
  \/ GenerateRefreshToken(1, DefaultClientID)
  \/ \E k \in StoreKeys : GenerateAccessToken(1, DefaultClientID, k)
  \/ \E k \in StoreKeys, ty \in {AccessToken, RefreshToken} : ValidateTokenCall(1, k, ty)
  \/ \E k \in StoreKeys : RevokeTokenCall(1, k)
  \/ \E k \in StoreKeys : RevokeCascadeCall(1, k)
  \/ \E r \in BearerRequests : Middleware(1, r)
  \/ \E r \in StoreTokenRequests : handleRefreshTokenGrant(1, r)
  \/ refreshValidate(1)
  \/ refreshRevoke(1)
  \/ issueTokensRefresh(1)
  \/ issueTokensAccess(1)
  \/ Return(1)
  \/ TokenStoreCleanup
  \/ Tick

InitStore == Constructed({""}, Limit(MaxCodes, StoreTokens, MaxClients, RotateTime))

SpecStore == InitStore /\ [][NextStore]_vars

\* The rate limiter under any sequence of Allow calls, with its cleanup loop.
NextLimiter ==
  \/ \E ip \in IPs : Allow(ip)
  \/ RateLimiterCleanup
  \/ Tick

InitLimiter == Constructed({""}, Limit(MaxCodes, MaxTokens, MaxClients, LimiterTime))

SpecLimiter == InitLimiter /\ [][NextLimiter]_vars

\* A snapshot an earlier run left, or anybody wrote: a token that has expired, a
\* token that has not, a client, and a record for "claude-ai" with a redirect
\* URI of its own.
ForeignSnapshot ==
  MarshalIndent([k \in {"old1", "old2"} |->
                   IF k = "old1" THEN TokenInfo(AccessToken, DefaultClientID, 0, "old2")
                   ELSE TokenInfo(RefreshToken, DefaultClientID, RefreshTTL, "")],
                [c \in {DefaultClientID, "client0"} |->
                   IF c = DefaultClientID THEN {EvilCallback} ELSE {AppCallback}])

\* The registration served while a Persistence is at work; it succeeds or
\* finds crypto/rand failing.
PersistRegisterRequests ==
  {[ep |-> "register", method |-> "POST", json_ok |-> TRUE, redirect_uris |-> {AppCallback}]}

\* The refresh tokens of the store, to link an access token to.
RefreshKeys == {k \in DOMAIN tokens : tokens[k].Type = RefreshToken}

\* A data directory is configured; there is no file in it yet.
InitPersist ==
  /\ StoresConstructed({""}, Limit(MaxCodes, LoopTokens, MaxClients, PersistTime))
  /\ LimiterConstructed
  /\ ToolsConstructed
  /\ PersistenceConstructed({StatePath}, {NoFile})

\* The goroutines of the Persistence keep running.  A Save that has the mutex
\* goes on to its end (file I/O succeeds and returns), and a goroutine waiting
\* at p.mu.Lock() gets the mutex once it stays free.  The select of
\* periodicSave picks at random among its ready cases, and the ticker's case is
\* ready only once per interval: a loop that finds stopCh closed again and
\* again takes that case.
FairPersist ==
  /\ \A c \in SaveCallers : WF_vars(SaveGatherTokens(c))
  /\ WF_vars(SaveGatherClients)
  /\ WF_vars(SaveWriteBegins)
  /\ WF_vars(SaveWriteEnds)
  /\ WF_vars(SaveRename)
  /\ SF_vars(LoopStop)

\* The Persistence from Start to Stop while tokens are issued and expire.
NextPersistLive ==
  \/ Start
  \/ TriggerSave
  \/ Stop
  \/ LoopTick
  \/ LoopStop
  \/ \E c \in SaveCallers : SaveGatherTokens(c)
  \/ SaveGatherClients
  \/ SaveWriteBegins
  \/ SaveWriteEnds
  \/ SaveRename
  \/ GenerateRefreshToken(1, DefaultClientID)
  \/ Return(1)
  \/ Tick

SpecPersistLive == InitPersist /\ [][NextPersistLive]_vars /\ FairPersist

\* A Persistence without a data directory, under every call of its methods.
NextDisabled ==
  \/ Start
  \/ LoadCall
  \/ SaveCall
  \/ TriggerSave
  \/ Stop
  \/ \E r \in PersistRegisterRequests : Register(1, r)
  \/ GenerateRefreshToken(1, DefaultClientID)
  \/ \E k \in RefreshKeys : GenerateAccessToken(1, DefaultClientID, k)
  \/ Return(1)
  \/ Tick

InitDisabled ==
  /\ StoresConstructed({""}, Limit(MaxCodes, MaxTokens, MaxClients, PersistTime))
  /\ LimiterConstructed
  /\ ToolsConstructed
  /\ PersistenceConstructed({""}, {NoFile})

SpecDisabled == InitDisabled /\ [][NextDisabled]_vars

\* Saving, crashing and starting again: the owner saves, a write may fail, the
\* process may die at any point and start on the files it left.
NextRecover ==
  \/ Start
  \/ SaveCall
  \/ SaveGatherTokens("call")
  \/ SaveGatherClients
  \/ SaveWriteBegins
  \/ SaveWriteEnds
  \/ SaveWriteFails
  \/ SaveRename
  \/ Restart
  \/ \E r \in PersistRegisterRequests : Register(1, r)
  \/ GenerateRefreshToken(1, DefaultClientID)
  \/ \E k \in RefreshKeys : GenerateAccessToken(1, DefaultClientID, k)
  \/ Return(1)
  \/ Tick

\* The file is absent or a snapshot.
InitRecover ==
  /\ StoresConstructed({""}, Limit(MaxCodes, PersistTokens, MaxClients, PersistTime))
  /\ LimiterConstructed
  /\ ToolsConstructed
  /\ PersistenceConstructed({StatePath}, {NoFile, ForeignSnapshot})

SpecRecover == InitRecover /\ [][NextRecover]_vars

\* Clients registered and the file loaded, in any order, as often as one likes.
NextSeed ==
  \/ Start
  \/ LoadCall
  \/ LoadRuns
  \/ \E r \in RegisterRequests : Register(1, r)
  \/ Return(1)
  \/ Restart
  \/ Tick

\* The file is absent, unreadable, cut short, not JSON, or a snapshot.
InitSeed ==
  /\ StoresConstructed({""}, Limit(MaxCodes, MaxTokens, MaxClients, MaxTime))
  /\ LimiterConstructed
  /\ ToolsConstructed
  /\ PersistenceConstructed({StatePath},
                            {NoFile, UnreadableFile, PartialFile, GarbageFile, ForeignSnapshot})

SpecSeed == InitSeed /\ [][NextSeed]_vars

\* refresh_token grants presenting any token a caller may hold, with no
\* client_id, with that of "claude-ai" and with that of another client.
RefreshClients == {DefaultClientID, "client0"}

RefreshTokenRequests ==
  {TokenRequest("POST", "refresh_token", "", "", c, "", k) :
     c \in {""} \cup RefreshClients, k \in StoreKeys}

\* Refresh tokens of two clients and the refresh_token grant, one request at a
\* time.
NextRefresh ==
  \/ \E c \in RefreshClients : GenerateRefreshToken(1, c)
  \/ \E r \in RefreshTokenRequests : handleRefreshTokenGrant(1, r)
  \/ refreshValidate(1)
  \/ refreshRevoke(1)
  \/ issueTokensRefresh(1)
  \/ issueTokensAccess(1)
  \/ Return(1)
  \/ TokenStoreCleanup
  \/ Tick

InitRefresh == Constructed({""}, Limit(MaxCodes, StoreTokens, MaxClients, RotateTime))

SpecRefresh == InitRefresh /\ [][NextRefresh]_vars

\* The requests of a client that registered: GET /authorize with its client_id
\* and a redirect URI, registered or not, ...
ClientAuthorizeRequests ==
  {AuthorizeRequest("GET", c, u, "code", S256("v1"), "S256", "", "") :
     c \in (DOMAIN clients) \ {DefaultClientID}, u \in {AppCallback, EvilCallback}}

\* ... and the redemption of a code with its client_id and a redirect URI, with
\* the verifier of the challenge or another one.
ClientTokenRequests ==
  {TokenRequest("POST", "authorization_code", k, v, c, u, "") :
     k \in DOMAIN codes, v \in {"v1", "v2"},
     c \in (DOMAIN clients) \ {DefaultClientID}, u \in {AppCallback, EvilCallback}}

\* The whole flow without a PIN: registration, authorization, redemption of the
\* code, and requests to the protected handler.
NextFlow ==
  \/ \E r \in PersistRegisterRequests : Register(1, r)
  \/ \E r \in ClientAuthorizeRequests : authorizeGet(1, r)
  \/ \E r \in ClientTokenRequests : handleAuthorizationCodeGrant(1, r)
  \/ issueTokensRefresh(1)
  \/ issueTokensAccess(1)
  \/ \E r \in BearerRequests : Middleware(1, r)
  \/ Return(1)
  \/ TokenStoreCleanup
  \/ AuthCodeStoreCleanup
  \/ Tick

InitFlow == Constructed({""}, Limit(MaxCodes, MaxTokens, MaxClients, RotateTime))

SpecFlow == InitFlow /\ [][NextFlow]_vars

\* Requests are served once Start has returned.
Serving == life.at = "started"

\* The server with a data directory, between two ticks of the save loop: the
\* handlers that change the stores (registration, code exchange, rotation with
\* its revocation) and the Persistence with TriggerSave called by its owner.
NextTrigger ==
  \/ Start
  \/ TriggerSave
  \/ SaveGatherTokens("trigger")
  \/ SaveGatherClients
  \/ SaveWriteBegins
  \/ SaveWriteEnds
  \/ SaveRename
  \/ Serving /\ \E r \in PersistRegisterRequests : Register(1, r)
  \/ Serving /\ \E r \in RaceAuthorizeRequests : authorizeGet(1, r)
  \/ Serving /\ \E r \in RaceTokenRequests : handleAuthorizationCodeGrant(1, r)
  \/ Serving /\ \E r \in RaceTokenRequests : handleRefreshTokenGrant(1, r)
  \/ refreshValidate(1)
  \/ refreshRevoke(1)
  \/ issueTokensRefresh(1)
  \/ issueTokensAccess(1)
  \/ Return(1)
  \/ Tick

InitTrigger ==
  /\ StoresConstructed({""}, Limit(MaxCodes, MaxTokens, MaxClients, PersistTime))
  /\ LimiterConstructed
  /\ ToolsConstructed
  /\ PersistenceConstructed({StatePath}, {NoFile})

SpecTrigger == InitTrigger /\ [][NextTrigger]_vars

\* The lock operations of the handlers, the sweeps, Save, Load and Stop, in
\* every interleaving.
NextLocks ==
  \/ \E g \in Goroutines : Call(g)
  \/ \E g \in Goroutines : LockStep(g)
  \/ \E g \in Goroutines : RLockStep(g)
  \/ \E g \in Goroutines : UnlockStep(g)

\* Save and Load take Persistence.mu only with a data directory.
InitLocks ==
  /\ StoresConstructed({""}, Limit(MaxCodes, MaxTokens, MaxClients, MaxTime))
  /\ LimiterConstructed
  /\ ToolsConstructed
  /\ PersistenceConstructed({StatePath}, {NoFile})

SpecLocks == InitLocks /\ [][NextLocks]_vars

\* The TokenStore under concurrent callers: goroutine 1 runs
\* RevokeRefreshTokenAndAccessTokens statement by statement, goroutine 2 the
\* other methods on the tokens there are, next to the sweep and the Save of
\* Stop.  Every operation enters its critical section only while TokenStore.mu is free.
NextCascade ==
  \/ TokenStoreFree /\ GenerateRefreshToken(2, DefaultClientID)
  \/ \E k \in DOMAIN tokens : TokenStoreFree /\ GenerateAccessToken(2, DefaultClientID, k)
  \/ \E k \in DOMAIN tokens, ty \in {AccessToken, RefreshToken} :
       TokenStoreFree /\ ValidateTokenCall(2, k, ty)
  \/ \E k \in DOMAIN tokens : TokenStoreFree /\ RevokeTokenCall(2, k)
  \/ \E k \in DOMAIN tokens : CascadeLock(1, k)
  \/ CascadeDeleteRefresh(1)
  \/ CascadeDeleteAccess(1)
  \/ CascadeUnlock(1)
  \/ \E p \in Procs : Return(p)
  \/ TokenStoreFree /\ TokenStoreCleanup
  \/ Start
  \/ Stop
  \/ TokenStoreFree /\ SaveGatherTokens("stop")
  \/ SaveGatherClients
  \/ SaveWriteBegins
  \/ SaveWriteEnds
  \/ SaveRename
  \/ Tick

InitCascade ==
  /\ StoresConstructed({""}, Limit(MaxCodes, MaxTokens, MaxClients, RotateTime))
  /\ LimiterConstructed
  /\ ToolsConstructed
  /\ PersistenceConstructed({StatePath}, {NoFile})

SpecCascade == InitCascade /\ [][NextCascade]_vars

\* The operations that reach the ClientStore or run next to it: registrations,
\* authorizations, both grants of /token, and Loads of whatever file there is.
NextClients ==
  \/ Start
  \/ LoadCall
  \/ LoadRuns
  \/ \E r \in PersistRegisterRequests : Register(1, r)
  \/ \E r \in RaceAuthorizeRequests \cup ClientAuthorizeRequests : authorizeGet(1, r)
  \/ \E r \in RaceTokenRequests : handleAuthorizationCodeGrant(1, r)
  \/ \E r \in RaceTokenRequests : handleRefreshTokenGrant(1, r)
  \/ refreshValidate(1)
  \/ refreshRevoke(1)
  \/ issueTokensRefresh(1)
  \/ issueTokensAccess(1)
  \/ Return(1)
  \/ Tick

InitClients ==
  /\ StoresConstructed({""}, Limit(MaxCodes, MaxTokens, MaxClients, PersistTime))
  /\ LimiterConstructed
  /\ ToolsConstructed
  /\ PersistenceConstructed({StatePath}, {NoFile, GarbageFile, ForeignSnapshot})

SpecClients == InitClients /\ [][NextClients]_vars

\* The goroutines that call Save, and the sweep of the TokenStore next to them.
NextSaves ==
  \/ \E g \in PersistenceGoroutines : SaveCalled(g)
  \/ \E g \in PersistenceGoroutines : SaveStep(g)
  \/ Call("TokenStore.cleanupExpired")
  \/ \E g \in Goroutines : LockStep(g)
  \/ \E g \in Goroutines : RLockStep(g)
  \/ \E g \in Goroutines : UnlockStep(g)

InitSaves ==
  /\ StoresConstructed({""}, Limit(MaxCodes, MaxTokens, MaxClients, MaxTime))
  /\ LimiterConstructed
  /\ ToolsConstructed
  /\ PersistenceConstructed({StatePath}, {NoFile})

SpecSaves == InitSaves /\ [][NextSaves]_vars

\* POST /token behind the rate limiter: codes are issued by /authorize, every
\* token request comes from one address and passes RateLimitMiddleware, and
\* the handler serves the request the middleware passed on.
NextLimited ==
  \/ \E r \in RaceAuthorizeRequests : authorizeGet(1, r)
  \/ \E r \in RaceTokenRequests : RateLimitMiddleware(1, "10.0.0.1", r)
  \/ Admitted(1) /\ handleAuthorizationCodeGrant(1, req[1])
  \/ Admitted(1) /\ handleRefreshTokenGrant(1, req[1])
  \/ refreshValidate(1)
  \/ refreshRevoke(1)
  \/ issueTokensRefresh(1)
  \/ issueTokensAccess(1)
  \/ Return(1)
  \/ RateLimiterCleanup
  \/ Tick

InitLimited == Constructed({""}, Limit(MaxCodes, MaxTokens, MaxClients, RotateTime))

SpecLimited == InitLimited /\ [][NextLimited]_vars

\* Redemption of codes with the parameters they are bound to or with others,
\* by two goroutines.
BoundTokenRequests ==
  {TokenRequest("POST", "authorization_code", k, v, c, u, "") :
     k \in DOMAIN codes, v \in {"v1", "v2"},
     c \in {DefaultClientID, "unregistered"}, u \in {ClaudeCallback, EvilCallback}}

NextBound ==
  \/ \E r \in RaceAuthorizeRequests : authorizeGet(1, r)
  \/ \E p \in {1, 2}, r \in BoundTokenRequests : handleAuthorizationCodeGrant(p, r)
  \/ \E p \in {1, 2} : issueTokensRefresh(p)
  \/ \E p \in {1, 2} : issueTokensAccess(p)
  \/ \E p \in {1, 2} : Return(p)
  \/ AuthCodeStoreCleanup
  \/ Tick

InitBound == Constructed({""}, Limit(MaxCodes, MaxTokens, MaxClients, ShortTime))

SpecBound == InitBound /\ [][NextBound]_vars

\* checkResponseError on every response: the status codes of HTTP with the
\* header absent, "0", or another value.
Remainings == {"", "0", "1", "00"}

NextStatus == CheckResponse

InitStatus ==
  /\ StoresConstructed({""}, Limit(MaxCodes, MaxTokens, MaxClients, MaxTime))
  /\ LimiterConstructed
  /\ PersistenceConstructed({""}, {NoFile})
  /\ github = [content |-> NoTodos, commits |-> 0]
  /\ tool = [g \in ToolCallers |-> ToolIdle]
  /\ arg \in [called : {TRUE}, status : MinStatus..MaxStatus, remaining : Remainings]
  /\ ret = NotCalled

SpecStatus == InitStatus /\ [][NextStatus]_vars

\* addTodo and completeTodo, called by two clients at once, on todos.md.
AddTodoInputs ==
  {[Text |-> x, Priority |-> y, ID |-> ""] : x \in {"", " a "}, y \in {"", "High", "bogus"}}

CompleteTodoInputs ==
  {[Text |-> x, Priority |-> "", ID |-> y] : x \in {"", "A"}, y \in {"", " id1 "}}

NextTools ==
  \/ \E g \in ToolCallers, input \in AddTodoInputs : addTodoRead(g, input)
  \/ \E g \in ToolCallers, input \in CompleteTodoInputs : completeTodoRead(g, input)
  \/ \E g \in ToolCallers : ToolWrites(g)
  \/ \E g \in ToolCallers : ToolDone(g)

InitTools ==
  /\ StoresConstructed({""}, Limit(MaxCodes, MaxTokens, MaxClients, MaxTime))
  /\ LimiterConstructed
  /\ PersistenceConstructed({""}, {NoFile})
  /\ github = [content |-> NoTodos, commits |-> 0]
  /\ tool = [g \in ToolCallers |-> ToolIdle]
  /\ arg = NotCalled
  /\ ret = NotCalled

SpecTools == InitTools /\ [][NextTools]_vars

\* calculateStreak on every contribution calendar of at most MaxDays days, in
\* every order: one entry a date, from StreakDays before today to tomorrow
\* (the calendar is in the user's time zone), with or without contributions.
CalendarDays ==
  {ContributionDay(d, c) : d \in (Today - StreakDays)..(Today + 1), c \in {0, 2}}

Calendars ==
  {days \in UNION {[1..n -> CalendarDays] : n \in 0..MaxDays} :
     \A i, j \in 1..Len(days) : i # j => days[i].Date # days[j].Date}

NextStreak == CalculateStreak

InitStreak ==
  /\ StoresConstructed({""}, Limit(MaxCodes, MaxTokens, MaxClients, MaxTime))
  /\ LimiterConstructed
  /\ PersistenceConstructed({""}, {NoFile})
  /\ github = [content |-> NoTodos, commits |-> 0]
  /\ tool = [g \in ToolCallers |-> ToolIdle]
  /\ arg \in [called : {TRUE}, days : Calendars, today : {Today}]
  /\ ret = NotCalled

SpecStreak == InitStreak /\ [][NextStreak]_vars

\* ------------------------------------------------------------- properties
\* A token request of the given grant type, being served or just answered.
IsGrant(q, grantType) ==
  q.ep = "token" /\ q.method = "POST" /\ q.grant_type = grantType

\* p takes up a request in this step.
Starts(p) == pc[p] = "idle" /\ pc'[p] # "idle"

\* p takes up a POST /token authorization_code request for code k that passes
\* the parameter check, so that the step calls authCodes.Get(k).
RedeemStep(p, k) ==
  /\ Starts(p)
  /\ IsGrant(req'[p], "authorization_code")
  /\ req'[p].code = k /\ req'[p].code_verifier # "" /\ req'[p].client_id # ""

\* p serves GET or POST /authorize from start to response in this step.
AuthorizeStep(p) == Starts(p) /\ req'[p].ep = "authorize"

\* C1: when a refresh_token grant presenting refresh token R has succeeded, R
\* no longer validates and no access token whose RefreshTokenID is R validates.
C1_RotationRevokesOldPair ==
  \A p \in Procs :
    (pc[p] = "done" /\ IsGrant(req[p], "refresh_token") /\ resp[p].status = 200) =>
      /\ ValidateToken(tokens, req[p].refresh_token, RefreshToken, now).Type = "nil"
      /\ \A k \in DOMAIN tokens :
           tokens[k].RefreshTokenID = req[p].refresh_token =>
             ValidateToken(tokens, k, AccessToken, now).Type = "nil"

\* C2: of the refresh_token requests that present one refresh token R, served
\* concurrently, at most one is answered with a new pair: no R ever yields two
\* pairs, and no two answered requests for the same R both succeeded.
C2_OnePairPerRefreshToken ==
  /\ \A t \in delivered : Count(hist.pairs, t) <= 1
  /\ \A p, q \in Procs :
       (p # q /\ pc[p] = "done" /\ pc[q] = "done"
        /\ IsGrant(req[p], "refresh_token") /\ IsGrant(req[q], "refresh_token")
        /\ req[p].refresh_token = req[q].refresh_token)
         => ~(resp[p].status = 200 /\ resp[q].status = 200)

\* C3: however the authorization_code requests presenting one code interleave,
\* AuthCodeStore.Get returns the code to at most one of them, and the code
\* yields at most one access/refresh pair.
C3_OneRedemptionPerCode ==
  \A k \in (DOMAIN hist.obtained) \cup (DOMAIN codes) :
    Count(hist.obtained, k) <= 1 /\ Count(hist.pairs, k) <= 1

\* Two requests presented the same code with its verifier; one was answered
\* with a pair, the other found the code gone.
C3_Witness ==
  \E p, q \in Procs :
    /\ p # q /\ pc[p] = "done" /\ pc[q] = "done"
    /\ IsGrant(req[p], "authorization_code") /\ IsGrant(req[q], "authorization_code")
    /\ req[p].code = req[q].code
    /\ req[p].code_verifier = "v1" /\ req[q].code_verifier = "v1"
    /\ resp[p].status = 200 /\ Count(hist.pairs, req[p].code) = 1
    /\ resp[q].description = "Invalid or expired authorization code"

\* C4: the first Get of a stored code before its expiry returns the record and
\* marks it used; every later Get of that code returns nil (the request is
\* answered "Invalid or expired authorization code" and nothing is issued),
\* inside the expiry window too, and whether the code was swept or not.
C4_SingleUseCodes ==
  [][\A p \in Procs, k \in (DOMAIN codes) \cup (DOMAIN hist.obtained) :
       RedeemStep(p, k) =>
         /\ (Count(hist.obtained, k) = 0 /\ k \in DOMAIN codes
             /\ Before(now, codes[k].ExpiresAt)) =>
              /\ Count(hist'.obtained, k) = 1
              /\ codes'[k].Used
              /\ ~(pc'[p] = "done"
                   /\ resp'[p].description = "Invalid or expired authorization code")
         /\ Count(hist.obtained, k) >= 1 =>
              /\ hist' = hist
              /\ pc'[p] = "done"
              /\ resp'[p] = tokenError("invalid_grant",
                                       "Invalid or expired authorization code")
              /\ tokens' = tokens]_vars

\* A code that Get returned once is presented again, correctly, while it is
\* still stored and unexpired, and the request is refused.
C4_Witness ==
  \E p \in Procs :
    /\ pc[p] = "done" /\ IsGrant(req[p], "authorization_code")
    /\ req[p].code \in DOMAIN codes
    /\ Before(now, codes[req[p].code].ExpiresAt)
    /\ codes[req[p].code].Used
    /\ Count(hist.obtained, req[p].code) = 1
    /\ Count(hist.pairs, req[p].code) = 1
    /\ resp[p] = tokenError("invalid_grant", "Invalid or expired authorization code")

\* C5: a stored token validated with its own type, and a stored unused code,
\* is absent to ValidateToken / Get exactly when now >= ExpiresAt.
C5_AbsentIffExpired ==
  /\ \A k \in DOMAIN tokens :
       (ValidateToken(tokens, k, tokens[k].Type, now).Type = "nil")
         <=> (now >= tokens[k].ExpiresAt)
  /\ \A k \in DOMAIN codes :
       ~codes[k].Used =>
         (~AuthCodeGettable(codes, k, now) <=> (now >= codes[k].ExpiresAt))

\* C6: every stored authorization code is bound to a registered client and to
\* one of that client's registered redirect URIs.
C6_CodesBoundToRegisteredRedirect ==
  \A k \in DOMAIN codes :
    /\ codes[k].ClientID \in DOMAIN clients
    /\ codes[k].RedirectURI \in clients[codes[k].ClientID]

\* C7: no stored authorization code has an empty CodeChallenge or a
\* CodeChallengeMethod other than S256.
C7_CodesCarryS256Challenge ==
  \A k \in DOMAIN codes :
    codes[k].CodeChallenge # "" /\ codes[k].CodeChallengeMethod = "S256"

\* C8: an authorization_code request whose code Get returns goes on to
\* issueTokens only if S256(code_verifier) is the code's CodeChallenge; with
\* the verifier of the challenge (and the code's client and redirect URI) it
\* does go on; with any other verifier it is answered 400 invalid_grant and no
\* token is stored.  Tokens are stored by issueTokens alone.
C8_PKCERoundTrip ==
  [][/\ \A p \in Procs, k \in DOMAIN codes :
          (RedeemStep(p, k) /\ AuthCodeGettable(codes, k, now)) =>
            /\ (pc'[p] = "issueRefresh") =>
                 (S256(req'[p].code_verifier) = codes[k].CodeChallenge)
            /\ (/\ S256(req'[p].code_verifier) = codes[k].CodeChallenge
                /\ codes[k].ClientID = req'[p].client_id
                /\ codes[k].RedirectURI = req'[p].redirect_uri) =>
                 (pc'[p] = "issueRefresh")
            /\ (S256(req'[p].code_verifier) # codes[k].CodeChallenge) =>
                 /\ pc'[p] = "done"
                 /\ resp'[p].status = 400 /\ resp'[p].error = "invalid_grant"
                 /\ tokens' = tokens /\ delivered' = delivered
     /\ ((DOMAIN tokens') \ (DOMAIN tokens) # {}) =>
          \E p \in Procs : pc[p] \in {"issueRefresh", "issueAccess"}]_vars

\* A request presented a live code with its client and redirect URI but with a
\* verifier other than the one of its challenge, and was refused for it.
C8_Witness ==
  \E p \in Procs :
    /\ pc[p] = "done" /\ IsGrant(req[p], "authorization_code")
    /\ req[p].code \in DOMAIN codes
    /\ codes[req[p].code].CodeChallenge = S256("v1")
    /\ req[p].code_verifier = "v2"
    /\ resp[p] = tokenError("invalid_grant", "Invalid code_verifier")
    /\ tokens = EmptyMap

\* C9: an authorization_code request whose client_id or redirect_uri differs
\* from what the presented code is bound to is answered 400 invalid_grant and
\* stores no token.
C9_BindingMismatchRejected ==
  [][\A p \in Procs, k \in DOMAIN codes :
       (/\ RedeemStep(p, k)
        /\ \/ codes[k].ClientID # req'[p].client_id
           \/ codes[k].RedirectURI # req'[p].redirect_uri) =>
         /\ pc'[p] = "done"
         /\ resp'[p].status = 400 /\ resp'[p].error = "invalid_grant"
         /\ tokens' = tokens /\ delivered' = delivered]_vars

\* A request presented a live code with its verifier but from another client
\* or with another redirect URI, and was refused for it.
C9_Witness ==
  \E p \in Procs :
    /\ pc[p] = "done" /\ IsGrant(req[p], "authorization_code")
    /\ req[p].code \in DOMAIN codes
    /\ validatePKCE(req[p].code_verifier, codes[req[p].code].CodeChallenge)
    /\ \/ codes[req[p].code].ClientID # req[p].client_id
       \/ codes[req[p].code].RedirectURI # req[p].redirect_uri
    /\ resp[p].status = 400 /\ resp[p].error = "invalid_grant"
    /\ resp[p].description \in {"Client ID mismatch", "Redirect URI mismatch"}
    /\ tokens = EmptyMap

StoreStep(p, op) == Starts(p) /\ req'[p].ep = "store" /\ req'[p].op = op

\* C11: when RevokeRefreshTokenAndAccessTokens(R) has returned, R does not
\* validate as a refresh token, no access token whose RefreshTokenID was R
\* validates, and every record whose key is not R and whose RefreshTokenID is
\* not R is in the store as it was; the call adds no record.
C11_CascadeRevokesPairOnly ==
  [][\A p \in Procs :
       StoreStep(p, "RevokeRefreshTokenAndAccessTokens") =>
         LET R == req'[p].token IN
         /\ ValidateToken(tokens', R, RefreshToken, now').Type = "nil"
         /\ \A k \in DOMAIN tokens :
              IF k = R \/ tokens[k].RefreshTokenID = R
              THEN ValidateToken(tokens', k, AccessToken, now').Type = "nil"
              ELSE k \in DOMAIN tokens' /\ tokens'[k] = tokens[k]
         /\ DOMAIN tokens' \subseteq DOMAIN tokens]_vars

\* A cascade on the first refresh token issued has returned before anything
\* expired: of the three tokens issued only the third, another refresh token,
\* is in the store.
C11_Witness ==
  \E p \in Procs :
    /\ pc[p] = "done" /\ req[p].ep = "store"
    /\ req[p].op = "RevokeRefreshTokenAndAccessTokens"
    /\ req[p].token = SecureToken("token", 1)
    /\ rnd.token = 3
    /\ DOMAIN tokens = {SecureToken("token", 3)}
    /\ tokens[SecureToken("token", 3)].Type = RefreshToken
    /\ now = 0

\* The bearer token of a request to the protected handler.
BearerOf(q) == TrimPrefix(q.authorization, "Bearer ")

\* C12: ValidateToken(token, expectedType) returns nil when the stored record
\* of token has another type; a request whose bearer token is a stored refresh
\* token is answered 401 and not served; a refresh_token grant that presents an
\* access token is answered invalid_grant, and neither revokes nor issues.
C12_KindsNotInterchangeable ==
  [][\A p \in Procs :
       /\ (/\ StoreStep(p, "ValidateToken")
           /\ req'[p].token \in DOMAIN tokens
           /\ tokens[req'[p].token].Type # req'[p].expectedType)
            => resp'[p].info = NilInfo
       /\ (/\ Starts(p) /\ req'[p].ep = "mcp"
           /\ HasPrefix(req'[p].authorization, "Bearer ")
           /\ BearerOf(req'[p]) \in DOMAIN tokens
           /\ tokens[BearerOf(req'[p])].Type = RefreshToken)
            => resp'[p].status = 401 /\ ~resp'[p].served
       /\ (/\ pc[p] = "validate" /\ pc'[p] # "validate"
           /\ loc[p].info.Type = AccessToken)
            => /\ pc'[p] = "done"
               /\ resp'[p] = tokenError("invalid_grant", "Invalid or expired refresh token")
               /\ tokens' = tokens /\ rnd' = rnd]_vars

\* A request whose bearer token is a stored, unexpired refresh token has been
\* answered 401.
C12_Witness ==
  \E p \in Procs :
    /\ pc[p] = "done" /\ req[p].ep = "mcp"
    /\ HasPrefix(req[p].authorization, "Bearer ")
    /\ BearerOf(req[p]) \in DOMAIN tokens
    /\ tokens[BearerOf(req[p])].Type = RefreshToken
    /\ Before(now, tokens[BearerOf(req[p])].ExpiresAt)
    /\ resp[p].status = 401

\* C13: a request to the protected handler is served if and only if its
\* Authorization header starts with "Bearer " and the token is the non-empty
\* static secret or a stored access token that is valid (now < ExpiresAt);
\* every other request is answered 401 with a WWW-Authenticate: Bearer header.
C13_HandlerIffAuthorized ==
  \A p \in Procs :
    (pc[p] = "done" /\ req[p].ep = "mcp") =>
      LET k == BearerOf(req[p])
          authorized ==
            /\ HasPrefix(req[p].authorization, "Bearer ")
            /\ \/ (StaticToken # "" /\ k = StaticToken)
               \/ /\ k \in DOMAIN tokens
                  /\ tokens[k].Type = AccessToken
                  /\ Before(now, tokens[k].ExpiresAt)
      IN /\ resp[p].served <=> authorized
         /\ ~resp[p].served =>
              resp[p].status = 401 /\ HasPrefix(resp[p].www_authenticate, "Bearer")

\* The calls before the i-th that were admitted for the same address.
AdmittedBefore(i) ==
  {j \in 1..(i - 1) : calls[j].ip = calls[i].ip /\ calls[j].ok}

\* The admitted calls of address ip made at a time in the interval [s, s + W).
AdmittedIn(ip, s) ==
  {j \in 1..Len(calls) :
     calls[j].ip = ip /\ calls[j].ok /\ s <= calls[j].t /\ calls[j].t < s + RateWindow}

\* C14: a call of Allow is admitted if and only if fewer than RateLimit admitted
\* calls of its address were made less than RateWindow before it.  Hence a
\* call with RateLimit admitted calls of its address at its own instant is
\* rejected, a call whose earlier calls are all at least RateWindow old is
\* admitted, and no interval [s, s + RateWindow) holds more than RateLimit
\* admitted calls of one address.
C14_AdmittedIffUnderLimit ==
  /\ \A i \in 1..Len(calls) :
       /\ calls[i].ok <=>
            Cardinality({j \in AdmittedBefore(i) : calls[j].t + RateWindow > calls[i].t})
              < RateLimit
       /\ Cardinality({j \in AdmittedBefore(i) : calls[j].t = calls[i].t}) >= RateLimit
            => ~calls[i].ok
       /\ (\A j \in AdmittedBefore(i) : calls[j].t + RateWindow <= calls[i].t)
            => calls[i].ok
  /\ \A ip \in IPs, s \in 0..limit.time : Cardinality(AdmittedIn(ip, s)) <= RateLimit

\* One address made RateLimit calls at time 0 that were all admitted, a call
\* inside the window that was rejected, and a call at time RateWindow that was
\* admitted.
C14_Witness ==
  /\ Len(calls) = RateLimit + 2
  /\ \A i \in 1..Len(calls) : calls[i].ip = calls[1].ip
  /\ \A i \in 1..RateLimit : calls[i].ok /\ calls[i].t = 0
  /\ ~calls[RateLimit + 1].ok /\ calls[RateLimit + 1].t < RateWindow
  /\ calls[RateLimit + 2].ok /\ calls[RateLimit + 2].t = RateWindow

\* The stores NewTokenStore and NewClientStore construct.
FreshStores ==
  tokens = EmptyMap /\ clients = [c \in {DefaultClientID} |-> DefaultRedirectURIs]

\* Load runs in this step: within Start, or for a call of Load.
LoadStep ==
  \/ life.at = "new" /\ life'.at = "started" /\ ~Disabled(filePath)
  \/ life.at = "loading" /\ life'.at = "started"

\* C15: when Load runs on fresh stores and the file is the one a Save wrote,
\* the token store holds exactly the tokens that were in the store Save read,
\* unexpired when Save read them and unexpired now, each with the Type, ClientID,
\* ExpiresAt and RefreshTokenID it had; the client store holds "claude-ai" and
\* exactly the other clients of the store Save read, each with its redirect URIs.
C15_SaveLoadRoundTrip ==
  [][(LoadStep /\ FreshStores /\ snap.taken) =>
       /\ DOMAIN tokens' = {k \in DOMAIN snap.Tokens :
                              /\ Before(snap.at, snap.Tokens[k].ExpiresAt)
                              /\ Before(now, snap.Tokens[k].ExpiresAt)}
       /\ \A k \in DOMAIN tokens' : tokens'[k] = snap.Tokens[k]
       /\ DOMAIN clients' = {DefaultClientID} \cup DOMAIN snap.Clients
       /\ \A c \in (DOMAIN snap.Clients) \ {DefaultClientID} : clients'[c] = snap.Clients[c]
       /\ clients'[DefaultClientID] = DefaultRedirectURIs]_vars

\* The process has started again on a snapshot a Save wrote and nothing more
\* can be drawn: the stores hold, from the file, an access token with the
\* refresh token it is linked to and the client that was registered.
C15_Witness ==
  /\ life = Life("started", "Start")
  /\ snap.taken
  /\ rnd.token = limit.token /\ rnd.client = limit.client
  /\ \E k \in DOMAIN tokens :
       /\ tokens[k].Type = AccessToken
       /\ tokens[k].RefreshTokenID \in DOMAIN tokens
       /\ tokens[tokens[k].RefreshTokenID].Type = RefreshToken
       /\ k \in DOMAIN snap.Tokens /\ tokens[k] = snap.Tokens[k]
  /\ SecureToken("client", 1) \in DOMAIN clients
  /\ SecureToken("client", 1) \in DOMAIN snap.Clients
  /\ clients[SecureToken("client", 1)] = {AppCallback}
  /\ \A p \in Procs : pc[p] = "idle"

\* The ExpiresAt of token k as the document `file` has it.
ExpiresAtIn(file, k) == UnmarshalTime(file.Tokens[k].ExpiresAt)

\* C16: a document Save writes, at the temporary path or renamed to the
\* snapshot path, holds no token whose ExpiresAt is at or before the instant at
\* which Save read the clock; and every token a Load puts into the token store
\* expires after the instant of the Load.
C16_NoExpiredTokenSavedOrLoaded ==
  [][/\ saving'.pc = "written" =>
          \A k \in DOMAIN tmpFile'.Tokens : Before(saving'.at, ExpiresAtIn(tmpFile', k))
     /\ snap'.taken =>
          \A k \in DOMAIN disk'.Tokens : Before(snap'.at, ExpiresAtIn(disk', k))
     /\ LoadStep =>
          \A k \in DOMAIN tokens' :
            (k \notin DOMAIN tokens \/ tokens'[k] # tokens[k]) =>
              Before(now', tokens'[k].ExpiresAt)]_vars

\* A Save has replaced the file when the token store held a token that had
\* expired: the snapshot does not have it.
C16_Witness ==
  /\ snap.taken
  /\ disk.kind = "snapshot"
  /\ \E k \in DOMAIN snap.Tokens :
       ~Before(snap.at, snap.Tokens[k].ExpiresAt) /\ k \notin DOMAIN disk.Tokens

\* C17: whatever was registered and whatever file was loaded, the client store
\* has "claude-ai" with exactly its two redirect URIs.
C17_SeededClientKept ==
  /\ DefaultClientID \in DOMAIN clients
  /\ clients[DefaultClientID] = DefaultRedirectURIs

\* A client was registered and Load has put the other client of a snapshot
\* into the store, a snapshot whose record for "claude-ai" has another redirect
\* URI.
C17_Witness ==
  /\ disk.kind = "snapshot"
  /\ DefaultClientID \in DOMAIN disk.Clients
  /\ UnmarshalClientInfo(disk.Clients[DefaultClientID]) = {EvilCallback}
  /\ DOMAIN clients = {DefaultClientID, "client0", SecureToken("client", 1)}
  /\ life = Life("started", "Load")

\* C18: every step of a Save, and every crash and restart between its steps,
\* leaves the file at the snapshot path as it was or puts there, whole, the
\* document this Save marshalled; the file is absent or a complete snapshot,
\* never a partial one, and it is such a file that Load reads.
C18_SnapshotReplacedAtomically ==
  [][/\ \/ disk' = disk
        \/ /\ saving.pc = "written"
           /\ disk' = MarshalIndent(saving.Tokens, saving.Clients)
     /\ disk'.kind \in {"absent", "snapshot"}
     /\ LoadStep => disk.kind \in {"absent", "snapshot"}]_vars

\* The process died while a Save was writing and has not started again: the
\* temporary file is partial, the file at the snapshot path is the snapshot the
\* Save before it put there.
C18_Witness ==
  /\ life.at = "new"
  /\ tmpFile.kind = "partial"
  /\ snap.taken
  /\ disk = MarshalIndent(NonExpired(snap.Tokens, snap.at), snap.Clients)
  /\ disk # ForeignSnapshot

\* The document `file` as json.Unmarshal reads it.
TokensIn(file) == [k \in DOMAIN file.Tokens |-> UnmarshalTokenInfo(file.Tokens[k])]
ClientsIn(file) == [c \in DOMAIN file.Clients |-> UnmarshalClientInfo(file.Clients[c])]

\* C19: once Stop has returned, the file is a complete snapshot that a Save
\* begun after Stop closed the channel has put there, and it holds the tokens
\* that were unexpired and all the clients that were in the stores when that
\* Save read them; and once the channel is closed the periodicSave loop
\* returns.
C19_StopSavesAndLoopEnds ==
  /\ [](life.at = "stopped" =>
          /\ disk.kind = "snapshot"
          /\ snap.taken /\ snap.closed
          /\ TokensIn(disk) = NonExpired(snap.Tokens, snap.at)
          /\ ClientsIn(disk) = snap.Clients)
  /\ (stopCh = "closed") ~> (loop = "returned")

\* Stop has returned and the loop has ended; the file holds the token that was
\* in the store when the last Save read it.
C19_Witness ==
  /\ life.at = "stopped"
  /\ loop = "returned"
  /\ snap.closed
  /\ DOMAIN snap.Tokens # {}
  /\ DOMAIN TokensIn(disk) = DOMAIN snap.Tokens

\* C20: without a data directory no step creates or writes a file, starts the
\* loop or a saving goroutine, closes the channel or enters Save, and the steps
\* of the owner (Start, Load, Save, TriggerSave, Stop) leave the token store
\* and the client store as they are.
C20_DisabledIsNoOp ==
  [][filePath = "" =>
       /\ disk' = NoFile /\ tmpFile' = NoFile
       /\ loop' = "none" /\ triggered' = 0
       /\ stopCh' = "open" /\ saving' = NoSave
       /\ life' # life => (tokens' = tokens /\ clients' = clients)]_vars

\* Without a data directory the owner has called Start, later Stop, and Stop
\* has returned; the stores hold what the requests served meanwhile put there.
C20_Witness ==
  /\ filePath = ""
  /\ life = Life("stopped", "Stop")
  /\ tokens # EmptyMap
  /\ DOMAIN clients # {DefaultClientID}
  /\ disk = NoFile /\ loop = "none"

\* C21: a Load that finds no file returns no error and leaves both stores as
\* they are; a Load that finds a file it cannot read or parse leaves both
\* stores as they are (fresh stores stay fresh: no token, "claude-ai" with its
\* redirect URIs); and Start with a data directory, whatever the file, returns
\* nil with the owner running and the periodicSave loop started.
C21_BadSnapshotIsNoState ==
  [][/\ (LoadStep /\ disk.kind = "absent") =>
          /\ tokens' = tokens /\ clients' = clients
          /\ life'.err = ""
     /\ (LoadStep /\ disk.kind \in {"unreadable", "partial", "garbage"}) =>
          /\ tokens' = tokens /\ clients' = clients
          /\ FreshStores => (tokens' = EmptyMap
                             /\ clients' = [c \in {DefaultClientID} |-> DefaultRedirectURIs])
     /\ (life.at = "new" /\ life'.at # "new" /\ filePath # "") =>
          /\ life' = Life("started", "Start")
          /\ loop' = "select"]_vars

\* A client was registered after a start on a file that is not JSON, and a
\* Load called since has returned its error: the store has the registered
\* client and "claude-ai", and the loop runs.
C21_Witness ==
  /\ disk.kind = "garbage"
  /\ life = [Life("started", "Load") EXCEPT !.err = "error"]
  /\ loop = "select"
  /\ DOMAIN clients = {DefaultClientID, SecureToken("client", 1)}
  /\ clients[DefaultClientID] = DefaultRedirectURIs
  /\ tokens = EmptyMap

\* No handler is serving a request, no goroutine of TriggerSave waits to save
\* and nobody is inside Save.
Quiescent ==
  /\ \A p \in Procs : pc[p] = "idle"
  /\ triggered = 0
  /\ saving = NoSave

\* C22: every change a handler makes to the stores is followed by a triggered
\* Save.  Hence, once a started Persistence with a data directory is quiescent
\* between two ticks of its loop, the snapshot file has every registered client
\* and every unexpired token of the stores, and has no unexpired token that was
\* revoked.
C22_ChangesAreSaved ==
  (life.at = "started" /\ filePath # "" /\ Quiescent) =>
    /\ \A c \in (DOMAIN clients) \ {DefaultClientID} :
         disk.kind = "snapshot" /\ c \in DOMAIN disk.Clients
    /\ \A k \in DOMAIN tokens :
         Before(now, tokens[k].ExpiresAt) =>
           disk.kind = "snapshot" /\ k \in DOMAIN disk.Tokens
    /\ \A k \in DOMAIN disk.Tokens :
         Before(now, ExpiresAtIn(disk, k)) => k \in DOMAIN tokens

\* The answer of an OAuth endpoint to a request it has served.
OAuthAnswered(p) ==
  pc[p] = "done" /\ req[p].ep \in {"authorize", "token", "register"}

\* C23: an answer is the error server_error exactly when its status is 500, so
\* that a failure of crypto/rand, which is what server_error reports, is
\* answered 500 and nothing else is; every answer with another error code that
\* is not a redirect to the client has status 400.
C23_OnlyEntropyFailureIs500 ==
  \A p \in Procs :
    OAuthAnswered(p) =>
      /\ (resp[p].error = "server_error") <=> (resp[p].status = 500)
      /\ (resp[p].error \notin {"", "server_error"} /\ resp[p].location = "") =>
           resp[p].status = 400

\* The client of request q is not registered, or its redirect_uri is none of
\* the client's registered URIs.
RedirectNotRegistered(q) ==
  \/ q.client_id \notin DOMAIN clients
  \/ q.redirect_uri \notin clients[q.client_id]

\* C24, as stated: GET /authorize for a client that is not registered, or with
\* a redirect_uri that is none of the client's registered URIs, is answered 400
\* invalid_request, stores no code and redirects nowhere, with or without a PIN.
C24_UnregisteredRedirectRefused ==
  [][\A p \in Procs :
       (AuthorizeStep(p) /\ req'[p].method = "GET" /\ RedirectNotRegistered(req'[p])) =>
         /\ resp'[p].status = 400 /\ resp'[p].error = "invalid_request"
         /\ codes' = codes /\ rnd' = rnd
         /\ resp'[p].location = "" /\ resp'[p].code = ""]_vars

\* C24, amended: such a request is answered 400, with the error
\* unsupported_response_type when client_id, redirect_uri and response_type are
\* all present and response_type is not "code", and invalid_request otherwise;
\* it stores no code and redirects nowhere, with or without a PIN.
C24_UnregisteredRedirectRefused400 ==
  [][\A p \in Procs :
       (AuthorizeStep(p) /\ req'[p].method = "GET" /\ RedirectNotRegistered(req'[p])) =>
         /\ resp'[p].status = 400
         /\ resp'[p].error =
              (IF /\ req'[p].client_id # "" /\ req'[p].redirect_uri # ""
                  /\ req'[p].response_type \notin {"", "code"}
               THEN "unsupported_response_type" ELSE "invalid_request")
         /\ codes' = codes /\ rnd' = rnd
         /\ resp'[p].location = "" /\ resp'[p].code = ""]_vars

\* Without a PIN, a well-formed GET /authorize of "claude-ai" whose redirect_uri
\* has a registered URI as a proper prefix was answered 400 invalid_request, and
\* no code was drawn or stored.
C24_Witness ==
  \E p \in Procs :
    /\ authorizePin = ""
    /\ pc[p] = "done" /\ req[p].ep = "authorize" /\ req[p].method = "GET"
    /\ req[p].client_id = DefaultClientID
    /\ req[p].redirect_uri = ClaudeCallback \o "/evil"
    /\ req[p].response_type = "code" /\ req[p].code_challenge # ""
    /\ req[p].code_challenge_method = "S256"
    /\ resp[p] = ErrorResp(400, "invalid_request")
    /\ codes = EmptyMap /\ rnd.code = 0

\* p ends the validation of a refresh_token grant in this step.
RefreshValidated(p) == pc[p] = "validate" /\ pc'[p] # "validate"

\* C25: a refresh_token grant whose token ValidateToken returns goes on to the
\* rotation when client_id is omitted, and when client_id is the token's
\* client; with another client_id it is answered 400 invalid_grant, nothing is
\* revoked or issued, and the presented token, if it was in the store, is there
\* as it was and validates as a refresh token.
C25_ClientIdCheckedOnlyIfSupplied ==
  [][\A p \in Procs :
       RefreshValidated(p) =>
         LET r == req[p]
             tokenInfo == ValidateResult(loc[p].info, RefreshToken, now)
         IN tokenInfo.Type # "nil" =>
              /\ r.client_id = "" => pc'[p] = "revoke"
              /\ r.client_id = tokenInfo.ClientID => pc'[p] = "revoke"
              /\ (r.client_id # "" /\ r.client_id # tokenInfo.ClientID) =>
                   /\ pc'[p] = "done"
                   /\ resp'[p].status = 400 /\ resp'[p].error = "invalid_grant"
                   /\ tokens' = tokens /\ rnd' = rnd /\ delivered' = delivered
                   /\ r.refresh_token \in DOMAIN tokens =>
                        ValidateToken(tokens', r.refresh_token, RefreshToken, now') =
                          tokens[r.refresh_token]]_vars

\* A grant that presented an unexpired refresh token of "client0" with the
\* client_id of "claude-ai" was answered invalid_grant; the token is in the
\* store and nothing was drawn for a new pair.
C25_Witness ==
  \E p \in Procs, k \in DOMAIN tokens :
    /\ tokens[k].Type = RefreshToken /\ tokens[k].ClientID = "client0"
    /\ Before(now, tokens[k].ExpiresAt)
    /\ pc[p] = "done" /\ IsGrant(req[p], "refresh_token")
    /\ req[p].refresh_token = k /\ req[p].client_id = DefaultClientID
    /\ resp[p] = tokenError("invalid_grant", "Client ID mismatch")
    /\ rnd.token = 1

\* Redirect URIs a request may name.
SomeURIs == {"", ClaudeCallback, ClaudeCallback \o "/evil", AppCallback, EvilCallback}

\* ValidateRedirectURI is true of the client p was answered with exactly for the
\* redirect URIs of p's request.
RegisteredAsSubmitted(p) ==
  \A u \in SomeURIs :
    ValidateRedirectURI(resp[p].client_id, u) <=> (u \in req[p].redirect_uris)

\* C26: POST /register with a body that is not JSON or names no redirect URI
\* is answered 400 and leaves the client store as it is; a registration
\* answered 201 adds exactly one client, leaves every other client as it was,
\* and ValidateRedirectURI of the new client is true of the submitted URIs and
\* of no other.
C26_RegisterValidatesBody ==
  [][\A p \in Procs :
       (Starts(p) /\ req'[p].ep = "register" /\ req'[p].method = "POST") =>
         /\ (~req'[p].json_ok \/ req'[p].redirect_uris = {}) =>
              /\ resp'[p].status = 400
              /\ clients' = clients /\ rnd' = rnd
         /\ resp'[p].status = 201 =>
              LET c == resp'[p].client_id IN
              /\ c \notin DOMAIN clients
              /\ DOMAIN clients' = (DOMAIN clients) \cup {c}
              /\ \A d \in DOMAIN clients : clients'[d] = clients[d]
              /\ RegisteredAsSubmitted(p)'
         /\ clients' # clients => resp'[p].status = 201]_vars

\* A registration with two redirect URIs was answered 201: the store has the
\* new client with these two URIs beside "claude-ai".
C26_Witness ==
  \E p \in Procs :
    /\ pc[p] = "done" /\ req[p].ep = "register"
    /\ req[p].redirect_uris = {AppCallback, EvilCallback}
    /\ resp[p].status = 201
    /\ resp[p].client_id \in DOMAIN clients
    /\ clients[resp[p].client_id] = {AppCallback, EvilCallback}
    /\ DOMAIN clients = {DefaultClientID, resp[p].client_id}

\* p serves a request to the protected handler in this step, with bearer token k.
BearerStep(p, k) ==
  /\ Starts(p) /\ req'[p].ep = "mcp"
  /\ HasPrefix(req'[p].authorization, "Bearer ")
  /\ BearerOf(req'[p]) = k

\* C27: without a PIN and while crypto/rand delivers, (1) GET /authorize with
\* the client_id of a registered client, one of its redirect URIs u,
\* response_type code, a challenge and S256 stores exactly one new code, bound
\* to the client, u and the challenge, and redirects to u with that code;
\* (2) POST /token with a stored, unexpired, unused code, its client_id, its
\* redirect URI and the verifier of its challenge goes on to issueTokens, and
\* issueTokens answers 200 with an access token and the refresh token it is
\* linked to, each stored for the client when it was drawn; (3) a delivered access token stays
\* in the store while it is unexpired, and a bearer request with it before its
\* ExpiresAt is served; (4) a bearer request with an empty token or with one
\* that was never issued and is not the static secret is answered 401 and not
\* served.
C27_RegisterAuthorizeTokenBearer ==
  [][\A p \in Procs :
       /\ (/\ AuthorizeStep(p) /\ req'[p].method = "GET" /\ authorizePin = ""
           /\ req'[p].client_id \in DOMAIN clients
           /\ req'[p].redirect_uri \in clients[req'[p].client_id]
           /\ req'[p].response_type = "code" /\ req'[p].code_challenge # ""
           /\ req'[p].code_challenge_method = "S256"
           /\ rnd'.code # rnd.code) =>
            LET k == resp'[p].code IN
            /\ k \notin DOMAIN codes
            /\ DOMAIN codes' = (DOMAIN codes) \cup {k}
            /\ \A c \in DOMAIN codes : codes'[c] = codes[c]
            /\ codes'[k] = AuthCode(req'[p].client_id, req'[p].redirect_uri,
                                    req'[p].code_challenge, "S256", now + CodeTTL)
            /\ resp'[p].status = 302 /\ resp'[p].location = req'[p].redirect_uri
       /\ \A k \in DOMAIN codes :
            (/\ RedeemStep(p, k) /\ AuthCodeGettable(codes, k, now)
             /\ req'[p].client_id = codes[k].ClientID
             /\ req'[p].redirect_uri = codes[k].RedirectURI
             /\ S256(req'[p].code_verifier) = codes[k].CodeChallenge) =>
              pc'[p] = "issueRefresh" /\ loc'[p].clientID = codes[k].ClientID
       /\ (/\ pc[p] = "issueRefresh" /\ pc'[p] # "issueRefresh" /\ rnd'.token # rnd.token) =>
            LET r == loc'[p].refreshToken IN
            /\ pc'[p] = "issueAccess"
            /\ r \notin DOMAIN tokens
            /\ tokens' = MapPut(tokens, r, TokenInfo(RefreshToken, loc[p].clientID,
                                                     now + RefreshTTL, ""))
       /\ (/\ pc[p] = "issueAccess" /\ pc'[p] = "done" /\ rnd'.token # rnd.token) =>
            LET a == resp'[p].access_token
                r == resp'[p].refresh_token
            IN /\ resp'[p].status = 200
               /\ r = loc[p].refreshToken /\ a # r /\ a \notin DOMAIN tokens
               /\ tokens' = MapPut(tokens, a, TokenInfo(AccessToken, loc[p].clientID,
                                                        now + AccessTTL, r))
               /\ delivered' = delivered \cup {a, r}
       /\ \A k \in delivered \cap DOMAIN tokens :
            (tokens[k].Type = AccessToken /\ Before(now', tokens[k].ExpiresAt)) =>
              /\ k \in DOMAIN tokens' /\ tokens'[k] = tokens[k]
              /\ BearerStep(p, k) => (resp'[p].served /\ resp'[p].status = 200)
       /\ \A k \in {"", "bogus"} :
            BearerStep(p, k) => (resp'[p].status = 401 /\ ~resp'[p].served)]_vars

\* A client registered with https://app.example/cb, was redirected there with
\* the code, redeemed it, and its bearer request with the access token was
\* served before the token's ExpiresAt.
C27_Witness ==
  \E p \in Procs, k \in DOMAIN codes :
    /\ codes[k].ClientID = SecureToken("client", 1)
    /\ codes[k].RedirectURI = AppCallback /\ codes[k].Used
    /\ clients[SecureToken("client", 1)] = {AppCallback}
    /\ pc[p] = "done" /\ req[p].ep = "mcp"
    /\ BearerOf(req[p]) \in delivered \cap DOMAIN tokens
    /\ tokens[BearerOf(req[p])].Type = AccessToken
    /\ tokens[BearerOf(req[p])].ClientID = SecureToken("client", 1)
    /\ Before(now, tokens[BearerOf(req[p])].ExpiresAt)
    /\ resp[p].served /\ resp[p].status = 200

\* Some goroutine is inside a code path and none of those that are can perform
\* its next lock operation.
Deadlocked ==
  /\ \E g \in Goroutines : run[g] # <<>>
  /\ \A g \in Goroutines : run[g] # <<>> => ~CanStep(g)

\* C28: a goroutine that runs Save or Load never holds TokenStore.mu and
\* ClientStore.mu at the same time, and no interleaving of the handlers, the
\* sweeps, Save, Load and Stop reaches a state in which the goroutines that
\* are inside a code path all wait for a lock.
C28_OneStoreLockAtATime ==
  /\ \A g \in PersistenceGoroutines :
       ~(Holds(g, "TokenStore.mu") /\ Holds(g, "ClientStore.mu"))
  /\ ~Deadlocked
\* A Save holds Persistence.mu and waits for the TokenStore while a handler
\* holds TokenStore.mu and a Load is blocked on Persistence.mu.
C28_Witness ==
  /\ mu["Persistence.mu"].w = "periodicSave"
  /\ "owner" \in mu["Persistence.mu"].q
  /\ run["owner"] \in {LoadLocks(nt, nc) : nt \in 0..LoadItems, nc \in 0..LoadItems}
  /\ run["periodicSave"] = Tail(SaveLocks)
  /\ \E h \in HandlerGoroutines : mu["TokenStore.mu"].w = h
  /\ ~CanStep("periodicSave")

\* A revocation of refresh token R by p has deleted R and a token that was
\* linked to R when the revocation took the lock is still in the store.
HalfRevoked(p) ==
  /\ pc[p] = "cascadeRange"
  /\ req[p].token \notin DOMAIN tokens
  /\ hist.linked \cap DOMAIN tokens # {}

\* A step in which another operation of the TokenStore runs its critical
\* section: a validate, an issue, a revoke, a sweep, or Save gathering tokens.
TokenStoreStep ==
  \/ \E q \in Procs : GenerateRefreshToken(q, DefaultClientID)
  \/ \E q \in Procs, k \in StoreKeys : GenerateAccessToken(q, DefaultClientID, k)
  \/ \E q \in Procs, k \in StoreKeys, ty \in {AccessToken, RefreshToken} :
       ValidateTokenCall(q, k, ty)
  \/ \E q \in Procs, k \in StoreKeys : RevokeTokenCall(q, k)
  \/ \E q \in Procs, k \in StoreKeys : CascadeLock(q, k)
  \/ TokenStoreCleanup
  \/ SaveGatherTokens("stop")

\* C29: while RevokeRefreshTokenAndAccessTokens(R) has removed R and an access
\* token linked to R since before the call is still stored, no validate,
\* issue, revoke, sweep or Save runs on the store: none can observe that state.
\* (The revocation's own delete of a linked token that has expired changes
\* the state as a sweep would.)
C29_CascadeIsAtomic ==
  [][\A p \in Procs : HalfRevoked(p) => CascadeDeleteAccess(p) \/ ~TokenStoreStep]_vars
\* A revocation is half done while the other goroutine is free to call the
\* store and the Save of Stop has yet to gather the tokens.
C29_Witness ==
  \E p \in Procs :
    /\ HalfRevoked(p)
    /\ \E q \in Procs \ {p} : pc[q] = "idle"
    /\ life.at = "stopping" /\ saving = NoSave

\* C30: no step of a registration, an authorization, a token request or a
\* Load takes a client id out of the ClientStore: every id that is in the
\* map before the step is in it after.
C30_ClientsAreNeverDeleted == [][DOMAIN clients \subseteq DOMAIN clients']_vars
\* The default client, a client of the snapshot and a client that registered
\* are in the store after a Load the owner called and a token response.
C30_Witness ==
  /\ life = Life("started", "Load")
  /\ {DefaultClientID, "client0", SecureToken("client", 1)} \subseteq DOMAIN clients
  /\ delivered # {}

\* C31: ValidateToken(token, expectedType) called on a stored record whose
\* expiry has passed returns nil and the record is gone from the store when
\* the call returns, whichever type was expected.
C31_ExpiredIsRemovedByValidate ==
  [][\A p \in Procs :
       (/\ StoreStep(p, "ValidateToken")
        /\ req'[p].token \in DOMAIN tokens
        /\ After(now, tokens[req'[p].token].ExpiresAt))
         => /\ resp'[p].info = NilInfo
            /\ req'[p].token \notin DOMAIN tokens']_vars

\* C32: POST /authorize with action=deny stores no code, with or without a
\* PIN and whatever pin is submitted, and answers with a redirect that
\* carries error=access_denied to a URI registered for the submitted client_id.
C32_DenyRedirectsToRegisteredURI ==
  [][\A p \in Procs :
       (AuthorizeStep(p) /\ req'[p].method = "POST" /\ req'[p].action = "deny") =>
         /\ codes' = codes /\ rnd' = rnd /\ resp'[p].code = ""
         /\ resp'[p].status = 302 /\ resp'[p].error = "access_denied"
         /\ ValidateRedirectURI(req'[p].client_id, resp'[p].location)]_vars

\* The goroutines that have gathered a snapshot and not yet renamed its file.
Gathered == {g \in PersistenceGoroutines : saves.of[g] # 0}

\* C33: the Saves of the periodic loop, of TriggerSave and of Stop exclude one
\* another from the gathering to the rename: at most one goroutine is between
\* the two, at most one writes the temporary file, and a rename never puts a
\* snapshot in place of one that was gathered after it.
C33_SavesExcludeOneAnother ==
  [][/\ Cardinality(Gathered') <= 1
     /\ Cardinality(saves'.writers) <= 1
     /\ saves'.file.gen >= saves.file.gen]_vars
\* The owner's Save is writing the temporary file with the third snapshot
\* while the file holds the second and the other goroutine waits for p.mu.
C33_Witness ==
  /\ saves.writers = {"owner"}
  /\ saves.of["owner"] = 3 /\ saves.file.gen = 2
  /\ "periodicSave" \in mu["Persistence.mu"].q
  /\ run["periodicSave"] = SaveSteps

\* How often time t stands in the slice times.
Occurrences(times, t) == Cardinality({i \in 1..Len(times) : times[i] = t})

\* C34: a rejected call of Allow records no timestamp: no time stands more
\* often in the slice of its address after the call than before.  A call for
\* address a leaves every other address with the entry it had, or without
\* one, and is admitted or rejected by the admitted calls of a alone: the
\* calls of other addresses, however many, do not count.
C34_RejectedCallsRecordNothing ==
  [][Len(calls') = Len(calls) + 1 =>
       LET c == calls'[Len(calls')] IN
       /\ ~c.ok => \A t \in 0..limit.time :
                     Occurrences(RequestsOf(requests', c.ip), t)
                       <= Occurrences(RequestsOf(requests, c.ip), t)
       /\ \A b \in IPs \ {c.ip} :
            /\ b \in DOMAIN requests' <=> b \in DOMAIN requests
            /\ RequestsOf(requests', b) = RequestsOf(requests, b)
       /\ c.ok <=>
            Cardinality({j \in 1..Len(calls) :
                           /\ calls[j].ip = c.ip /\ calls[j].ok
                           /\ calls[j].t + RateWindow > c.t}) < RateLimit]_vars
\* One address used up its limit at time 0 and was rejected after that; the
\* other address, calling inside the same window, was admitted.
C34_Witness ==
  /\ Len(calls) = RateLimit + 2
  /\ \A i \in 1..RateLimit : calls[i].ip = calls[1].ip /\ calls[i].ok /\ calls[i].t = 0
  /\ calls[RateLimit + 1].ip = calls[1].ip /\ ~calls[RateLimit + 1].ok
  /\ calls[RateLimit + 2].ip # calls[1].ip /\ calls[RateLimit + 2].ok
  /\ calls[RateLimit + 2].t < RateWindow
  /\ Len(requests[calls[1].ip]) = RateLimit

\* C35: a POST /token request the rate limiter rejects is answered 429 in the
\* step of the middleware and is not handed to the token handler: the
\* authorization codes, the tokens, the values drawn and the tokens delivered
\* are what they were, so that a code that could be redeemed and a refresh
\* token that was valid before the request are so after it.
C35_RejectedTokenRequestChangesNothing ==
  [][\A p \in Procs :
       (/\ Len(calls') = Len(calls) + 1
        /\ ~calls'[Len(calls')].ok
        /\ req[p] = NoReq /\ req'[p] # NoReq) =>
         /\ pc'[p] = "done" /\ resp'[p].status = 429
         /\ resp'[p].access_token = "" /\ resp'[p].refresh_token = ""
         /\ codes' = codes /\ tokens' = tokens /\ rnd' = rnd
         /\ delivered' = delivered /\ hist' = hist
         /\ AuthCodeGettable(codes', req'[p].code, now')
              <=> AuthCodeGettable(codes, req'[p].code, now)
         /\ ValidateToken(tokens', req'[p].refresh_token, RefreshToken, now')
              = ValidateToken(tokens, req'[p].refresh_token, RefreshToken, now)]_vars
\* A request that presents a stored code with the parameters the code was
\* issued for has been answered 429; the code is unused and unexpired.
C35_Witness ==
  \E p \in Procs :
    /\ pc[p] = "done" /\ resp[p].status = 429
    /\ req[p].grant_type = "authorization_code"
    /\ AuthCodeGettable(codes, req[p].code, now)
    /\ codeGrantError(codes[req[p].code], req[p]) = ""
    /\ tokens = EmptyMap

\* C36: an authorization_code request whose code Get returned and that then
\* fails the client_id, redirect_uri or PKCE check is answered invalid_grant
\* and leaves the code used; every later request with that code, with the
\* parameters the code is bound to and before its expiry too, is answered
\* invalid_grant, and no token pair is ever issued for the code.
C36_FailedRedemptionConsumesCode ==
  [][/\ \A p \in Procs, k \in (DOMAIN codes) \cup (DOMAIN hist.obtained) :
          RedeemStep(p, k) =>
            /\ (AuthCodeGettable(codes, k, now)
                /\ codeGrantError(codes[k], req'[p]) # "") =>
                 /\ pc'[p] = "done"
                 /\ resp'[p] = tokenError("invalid_grant",
                                          codeGrantError(codes[k], req'[p]))
                 /\ codes'[k].Used
                 /\ \A t \in 0..MaxTime + 1 : ~AuthCodeGettable(codes', k, t)
                 /\ k \in hist'.failed
                 /\ tokens' = tokens
            /\ k \in hist.failed =>
                 /\ pc'[p] = "done"
                 /\ resp'[p] = tokenError("invalid_grant",
                                          "Invalid or expired authorization code")
                 /\ tokens' = tokens /\ hist' = hist
     /\ \A k \in hist'.failed : Count(hist'.pairs, k) = 0]_vars
\* A request failed a check on the record of a code; a later one presented the
\* code with the parameters it is bound to, before its expiry, and was refused.
C36_Witness ==
  \E p \in Procs :
    /\ pc[p] = "done" /\ IsGrant(req[p], "authorization_code")
    /\ req[p].code \in hist.failed /\ req[p].code \in DOMAIN codes
    /\ codeGrantError(codes[req[p].code], req[p]) = ""
    /\ Before(now, codes[req[p].code].ExpiresAt)
    /\ resp[p] = tokenError("invalid_grant", "Invalid or expired authorization code")
    /\ tokens = EmptyMap

\* p's call of issueTokens ends in this step with "Failed to generate tokens".
IssuanceFails(p) ==
  /\ pc[p] \in {"issueRefresh", "issueAccess"}
  /\ pc'[p] = "done"
  /\ resp'[p] = tokenError("server_error", "Failed to generate tokens")

\* C37: when GenerateAccessToken fails after GenerateRefreshToken stored a
\* refresh token, the store holds no record the request created; and when the
\* issuance of a refresh_token grant fails, the refresh token the request
\* presented is still stored.
C37_IssuanceIsAllOrNothing ==
  [][\A p \in Procs :
       IssuanceFails(p) =>
         /\ pc[p] = "issueAccess" => loc[p].refreshToken \notin DOMAIN tokens'
         /\ IsGrant(req[p], "refresh_token") => req[p].refresh_token \in DOMAIN tokens']_vars

\* C39: checkResponseError returns nil for 200 and 201, ErrNotFound for 404,
\* ErrConflict for 409, ErrUnauthorized for 401, ErrRateLimited for 429, for
\* 403 ErrRateLimited when X-RateLimit-Remaining is "0" and ErrUnauthorized
\* otherwise, and the generic error for every other status.
C39_StatusToError ==
  ret # NotCalled =>
    /\ arg.status \in {200, 201} => ret.err = "nil"
    /\ arg.status = 404 => ret.err = "ErrNotFound"
    /\ arg.status = 409 => ret.err = "ErrConflict"
    /\ arg.status = 401 => ret.err = "ErrUnauthorized"
    /\ arg.status = 429 => ret.err = "ErrRateLimited"
    /\ (arg.status = 403 /\ arg.remaining = "0") => ret.err = "ErrRateLimited"
    /\ (arg.status = 403 /\ arg.remaining # "0") => ret.err = "ErrUnauthorized"
    /\ arg.status \notin {200, 201, 401, 403, 404, 409, 429} => ret.err = "GitHub API error"
\* A 403 whose header says that no request remains was found to be the rate limit.
C39_Witness ==
  /\ ret # NotCalled
  /\ arg.status = 403 /\ arg.remaining = "0"
  /\ ret.err = "ErrRateLimited"

\* g's tool call goes from the return of its ReadFile to its output.
ToolWriteStep(g) == tool[g].pc = "read" /\ tool'[g].pc = "done"

\* C38: a tool writes with the SHA its own ReadFile returned.  When todos.md is
\* no longer what the tool read (another writer changed it, so its SHA is
\* another), WriteFile is not answered 200, the tool's output has Success
\* false, with the conflict message when the answer is 409, and the file is
\* what the other writer made it.  When the output has Success true, the file
\* was what the tool read and is now the tool's modification of it; the file
\* changes in no other case, so no writer's update is lost.
C38_StaleWritesConflict ==
  [][\A g \in ToolCallers :
       ToolWriteStep(g) =>
         /\ github.content # tool[g].content =>
              /\ github' = github
              /\ tool'[g].status # 200
              /\ ~tool'[g].out.Success
              /\ tool'[g].status = 409 => tool'[g].out = Out(FALSE, ConflictMessage, "")
         /\ tool'[g].out.Success =>
              /\ github.content = tool[g].content
              /\ \E id \in TodoIDs :
                   LET m == Modified(tool[g].op, tool[g].input, github.content, id)
                   IN m.write /\ github'.content = m.content
         /\ github' # github => tool'[g].out.Success]_vars
\* Two addTodo calls read the same todos.md; one wrote, the other was answered
\* 409 and reported the conflict, and the file has the first one's todo.
C38_Witness ==
  \E g, h \in ToolCallers :
    /\ g # h /\ tool[g].pc = "done" /\ tool[h].pc = "done"
    /\ tool[g].op = "addTodo" /\ tool[h].op = "addTodo"
    /\ tool[g].content = tool[h].content
    /\ tool[g].out.Success /\ tool[h].status = 409
    /\ tool[h].out = Out(FALSE, ConflictMessage, "")
    /\ Len(github.content.Active) = Len(tool[g].content.Active) + 1
    /\ github.content.Active[Len(github.content.Active)].Text = TrimSpace(tool[g].input.Text)

\* The day d has an entry with at least one contribution.
Contributed(days, d) ==
  \E i \in 1..Len(days) : days[i].Date = d /\ days[i].ContributionCount > 0

\* The length of the longest run of consecutive days with contributions that
\* ends on day d.
RunEnding(days, d) ==
  CHOOSE n \in 0..Len(days) :
    /\ \A k \in 0..(n - 1) : Contributed(days, d - k)
    /\ ~Contributed(days, d - n)

\* C40: calculateStreak returns the length of the longest run of consecutive
\* days with at least one contribution that ends today or, when today has
\* none, yesterday, whatever the order of the list: 0 for the empty list and
\* when neither today nor yesterday has a contribution; a day with no
\* contribution, or without entry, ends the run.
C40_StreakIsLongestCurrentRun ==
  ret # NotCalled =>
    ret.streak = IF Contributed(arg.days, arg.today) THEN RunEnding(arg.days, arg.today)
                 ELSE IF Contributed(arg.days, arg.today - 1)
                 THEN RunEnding(arg.days, arg.today - 1)
                 ELSE 0
\* A calendar given oldest day first, with an entry for tomorrow and none with
\* contributions for today: the streak is the two days that end yesterday, and
\* the day before them, without contributions, is not counted.
C40_Witness ==
  /\ ret # NotCalled
  /\ Len(arg.days) = 4
  /\ arg.days[1] = ContributionDay(arg.today - 3, 0)
  /\ arg.days[2].Date = arg.today - 2 /\ arg.days[3].Date = arg.today - 1
  /\ arg.days[4].Date = arg.today + 1
  /\ ret.streak = 2

====
